---- MODULE Spec2Model ----
(***************************************************************************)
(* Model of the gsm control plane: the Provisioner (launch, destroy,       *)
(* destroy_all, pause, resume, stop_container, pin_ip, unpin_ip), the      *)
(* reconciler, the local state store of every control-plane host and the   *)
(* cloud resources they act on (instances with their gsm:* tags, elastic   *)
(* IPs, the shared parameter store).                                       *)
(*                                                                         *)
(* Every host runs one operation at a time (pc[h]); an operation is a      *)
(* sequence of steps, one per blocking cloud / SSH round trip, and hosts   *)
(* interleave between steps.  Every cloud or SSH call may raise: each step *)
(* has one branch per outcome the code distinguishes.                      *)
(***************************************************************************)
EXTENDS Integers, FiniteSets, Sequences, TLC

(* ---------------------------------------------------------------- bounds *)
MaxServers == 2
MaxEips == 1
MaxSnaps == 1
LifeServers == 1

Hosts == {"h1", "h2"}
Regions == {"us-east-1", "eu-west-1"}
DefaultRegion == "us-east-1"
Ids == 1..MaxServers
EipIds == 1..MaxEips
SnapIds == 1..MaxSnaps

VARIABLES
    vm,        \* cloud: instance of server id i (state, tags, container)
    eip,       \* cloud: elastic IP allocations
    active,    \* parameter store: /gsmc/active-regions
    ssmKey,    \* parameter store: /gsmc/ssh-private-key exists
    keyPairs,  \* cloud: regions where the key pair gsm-key is imported
    sgs,       \* cloud: regions where the game's security group exists
    amis,      \* cloud: server ids whose gsm-restore-<id> image is registered
    ebs,       \* cloud: the tagged EBS snapshots (snapshot ids)
    store,     \* store[h]: servers.json of host h, a map id -> record
    snaps,     \* snaps[h]: snapshots.json of host h (snapshot ids)
    pc,        \* pc[h]: the step host h's running operation is at
    ctx,       \* ctx[h]: the locals of host h's running operation
    ev,        \* the return or raise the last step ended an operation with
    nextId,    \* the next fresh server id (uuid4 never repeats)
    keyFile,   \* keyFile[h]: the private key in ~/.gsm/keys of host h (0: none)
    clock,     \* time.time(), in units of ten seconds
    sentinel   \* sentinel[h]: the time in .last_reconcile of host h (-1: no file)

vars == <<vm, eip, active, ssmKey, keyPairs, sgs, amis, ebs, store, snaps, pc, ctx, ev, nextId, keyFile, clock, sentinel>>
cloudVars == <<vm, eip, active, ssmKey, keyPairs, sgs, amis, ebs>>

\* sentinel[h] when host h has no .last_reconcile file.
NoSentinel == -1

(* ------------------------------------------------------------ the cloud *)
NoVm == [state |-> "none", name |-> "", region |-> "", gen |-> 1,
         ctr |-> "none", cname |-> 0, tagEip |-> 0, tagCS |-> FALSE, tagCn |-> 0]
NoEip == [st |-> "none", sid |-> 0, region |-> "", inst |-> 0]

\* Container names are numbers; 0 is the empty string / no container.
\* DefaultCn: gsm-<game>-<id[:8]>, the name launch and ServerRecord.__post_init__
\* compute; OldCn: the name of the container a snapshot's volume carries, that
\* of the server the snapshot was taken from.
DefaultCn(i) == i
OldCn(snap) == 50 + snap

\* Addresses are numbers; 0 is the empty string / None.
EipAddr(a) == 100 + a
EphAddr(i, g) == 10 * i + g

\* Provisioner.EC2_STATE_MAP
EC2_STATE_MAP ==
    [s \in {"pending", "running", "stopping", "stopped"} |->
        CASE s = "pending" -> "launching"
          [] s = "running" -> "running"
          [] s = "stopping" -> "paused"
          [] s = "stopped" -> "paused"]

StateMapGet(s, default) ==
    IF s \in DOMAIN EC2_STATE_MAP THEN EC2_STATE_MAP[s] ELSE default

\* The instance states: "terminated" stands for shutting-down and terminated,
\* which the code never tells apart; "gone": the instance id is no longer known
\* (InvalidInstanceID.NotFound).  Live: the states find_gsm_instances keeps.
Live(i) == vm[i].state \in {"pending", "running", "stopping", "stopped"}

\* The elastic IP currently associated with instance i (0: none).
AssocOf(i) ==
    IF \E a \in EipIds : eip[a].st = "allocated" /\ eip[a].inst = i
    THEN CHOOSE a \in EipIds : eip[a].st = "allocated" /\ eip[a].inst = i
    ELSE 0

\* instance["PublicIpAddress"]: the associated elastic IP, else the ephemeral
\* address the instance holds while it is not stopped.
InstIp(i) ==
    IF AssocOf(i) # 0 THEN EipAddr(AssocOf(i))
    ELSE IF vm[i].state \in {"pending", "running", "stopping"}
         THEN EphAddr(i, vm[i].gen) ELSE 0

\* find_gsm_instances(region): tagged instances, terminated / shutting-down skipped.
find_gsm_instances(r) == {i \in Ids : Live(i) /\ vm[i].region = r}

\* find_gsm_eips(region): allocation ids of the tagged elastic IPs of a region.
find_gsm_eips(r) == {a \in EipIds : eip[a].st = "allocated" /\ eip[a].region = r}

UnionOver(S, F(_)) == UNION {F(x) : x \in S}

(* ------------------------------------------------------ the local store *)
DefaultName(i) == "g-" \o ToString(i)

Drop(s, i) == [j \in (DOMAIN s) \ {i} |-> s[j]]
Put(s, i, r) == [j \in (DOMAIN s) \cup {i} |-> IF j = i THEN r ELSE s[j]]
\* ServerState.update_status / update_field: no-ops when the id is absent.
UpdateIn(s, i, r) == IF i \in DOMAIN s THEN Put(s, i, r) ELSE s

\* ServerState.name_exists
name_exists(s, n) == \E i \in DOMAIN s : s[i].name = n

(* ------------------------------------------------------------ reconcile *)
\* The regions a reconcile scans.  activeOk = FALSE: _get_active_regions raised
\* (swallowed).
ScanRegions(s, extra, activeOk) ==
    LET rs == {s[i].region : i \in DOMAIN s} \cup extra
              \cup (IF activeOk THEN active ELSE {})
    IN IF rs = {} THEN {DefaultRegion} ELSE rs

\* A sync that maps the cloud state and never looks at the container-stopped
\* tag or at the local status.
SyncRecordIgnoresStopped(r, i, allocs) ==
    LET tagEip == vm[i].tagEip
    IN [r EXCEPT !.status = StateMapGet(vm[i].state, r.status),
                 !.ip = InstIp(i),
                 !.eip = tagEip,
                 !.eipIp = IF tagEip # r.eip
                           THEN (IF tagEip # 0 /\ tagEip \in allocs
                                 THEN EipAddr(tagEip) ELSE 0)
                           ELSE r.eipIp,
                 !.cn = IF vm[i].tagCn # 0 THEN vm[i].tagCn ELSE r.cn]

\* Lines 1069-1102: sync of one local record with its instance.
SyncRecord(r, i, allocs) ==
    LET mapped == StateMapGet(vm[i].state, r.status)
        st == IF mapped = "running" /\ (r.status = "stopped" \/ vm[i].tagCS)
              THEN "stopped" ELSE mapped
        tagEip == vm[i].tagEip
    IN [r EXCEPT !.status = st,
                 !.ip = InstIp(i),
                 !.eip = tagEip,
                 !.eipIp = IF tagEip # r.eip
                           THEN (IF tagEip # 0 /\ tagEip \in allocs
                                 THEN EipAddr(tagEip) ELSE 0)
                           ELSE r.eipIp,
                 !.cn = IF vm[i].tagCn # 0 THEN vm[i].tagCn ELSE r.cn]

\* An adoption that always gives the record the default container name.
AdoptRecordDefaultName(i, allocs) ==
    LET mapped == StateMapGet(vm[i].state, "running")
        st == IF mapped = "running" /\ vm[i].tagCS THEN "stopped" ELSE mapped
        tagEip == vm[i].tagEip
    IN [name |-> vm[i].name, region |-> vm[i].region, status |-> st,
        ip |-> InstIp(i), eip |-> tagEip,
        eipIp |-> IF tagEip # 0 /\ tagEip \in allocs THEN EipAddr(tagEip) ELSE 0,
        cn |-> DefaultCn(i)]

\* Lines 1107-1139: the record adopted for an instance with no local record.
AdoptRecord(i, allocs) ==
    LET mapped == StateMapGet(vm[i].state, "running")
        st == IF mapped = "running" /\ vm[i].tagCS THEN "stopped" ELSE mapped
        tagEip == vm[i].tagEip
    IN [name |-> vm[i].name, region |-> vm[i].region, status |-> st,
        ip |-> InstIp(i), eip |-> tagEip,
        eipIp |-> IF tagEip # 0 /\ tagEip \in allocs THEN EipAddr(tagEip) ELSE 0,
        cn |-> IF vm[i].tagCn # 0 THEN vm[i].tagCn ELSE DefaultCn(i)]

\* Lines 1174-1185: clear references to elastic IPs that no longer exist.
ClearStaleEip(r, i, allocs) ==
    IF r.eip # 0 /\ r.eip \notin allocs
    THEN [r EXCEPT !.eip = 0, !.eipIp = 0, !.ip = InstIp(i)]
    ELSE r

\* Lines 1141-1170: snapshot reconciliation.  Every snapshot is taken in the
\* default region; the regions listed are the scanned ones and those of the
\* local snapshot records; records of deleted snapshots go, orphans are adopted.
ReconciledSnaps(sn, regions) ==
    IF sn # {} \/ DefaultRegion \in regions THEN ebs ELSE {}

\* A reconcile that syncs and adopts but never deletes the record of an
\* instance it no longer finds.
ReconciledStoreKeepsAbsent(s, regions) ==
    LET found == UnionOver(regions, find_gsm_instances)
        allocs == UnionOver(regions, find_gsm_eips)
    IN [i \in found \cup DOMAIN s |->
          IF i \in found
          THEN ClearStaleEip(IF i \in DOMAIN s THEN SyncRecord(s[i], i, allocs)
                             ELSE AdoptRecord(i, allocs), i, allocs)
          ELSE s[i]]

\* Provisioner.reconcile on the server records: the store it leaves.
ReconciledStore(s, regions) ==
    LET found == UnionOver(regions, find_gsm_instances)
        allocs == UnionOver(regions, find_gsm_eips)
    IN [i \in found |->
          ClearStaleEip(IF i \in DOMAIN s THEN SyncRecord(s[i], i, allocs)
                        ELSE AdoptRecord(i, allocs), i, allocs)]

\* Provisioner.reconcile(extra_regions) as a function of the local records: the
\* server and snapshot records it leaves.
ReconcileOnce(s, sn, extra, activeOk) ==
    LET regions == ScanRegions(s, extra, activeOk)
    IN [servers |-> ReconciledStore(s, regions), snapshots |-> ReconciledSnaps(sn, regions)]

(* ----------------------------------------------------- operation frames *)
IdleCtx == [id |-> 0, name |-> "", region |-> "", snap |-> 0, ip |-> 0, cn |-> 0, cur |-> {}, checked |-> FALSE]

Event(h, op, out, err, id) == [h |-> h, op |-> op, out |-> out, err |-> err, id |-> id, scan |-> {}]
NoEvent == Event("", "", "", "", 0)

Idle(h) == pc[h] = "idle"

\* Host h starts an operation.
Begin(h) == Idle(h)

\* No other host is inside an operation.
Alone(h) == \A g \in Hosts \ {h} : Idle(g)

\* The operation of host h ends (out "ok": it returns; otherwise it raises).
Return(h, op, out, err, id) ==
    /\ pc' = [pc EXCEPT ![h] = "idle"]
    /\ ctx' = [ctx EXCEPT ![h] = IdleCtx]
    /\ ev' = Event(h, op, out, err, id)

Goto(h, label, c) ==
    /\ pc' = [pc EXCEPT ![h] = label]
    /\ ctx' = [ctx EXCEPT ![h] = c]
    /\ ev' = NoEvent

InitOther ==
    /\ vm = [i \in Ids |-> NoVm]
    /\ eip = [a \in EipIds |-> NoEip]
    /\ active = {}
    /\ ssmKey = FALSE
    /\ keyPairs = {}
    /\ sgs = {}
    /\ amis = {}
    /\ store = [h \in Hosts |-> << >>]
    /\ pc = [h \in Hosts |-> "idle"]
    /\ ctx = [h \in Hosts |-> IdleCtx]
    /\ ev = NoEvent
    /\ nextId = 1
    /\ keyFile = [h \in Hosts |-> 0]
    /\ clock = 0
    /\ sentinel = [h \in Hosts |-> NoSentinel]

Init ==
    /\ ebs = {}
    /\ snaps = [h \in Hosts |-> {}]
    /\ InitOther

(* ------------------------------------------------ the cloud's own steps *)
\* An instance finishes booting or stopping.
VmProgress(i) ==
    /\ vm[i].state \in {"pending", "stopping"}
    /\ vm' = [vm EXCEPT ![i].state = IF vm[i].state = "pending" THEN "running" ELSE "stopped",
                        ![i].ctr = IF vm[i].state = "stopping" /\ vm[i].ctr = "running"
                                   THEN "exited" ELSE vm[i].ctr]
    /\ ev' = NoEvent
    /\ UNCHANGED <<eip, active, ssmKey, keyPairs, sgs, amis, store, snaps, ebs, pc, ctx, nextId, keyFile, clock, sentinel>>

\* A terminated instance disappears from describe_instances: from then on its
\* id is answered with InvalidInstanceID.NotFound.
VmPurge(i) ==
    /\ vm[i].state = "terminated"
    /\ vm' = [vm EXCEPT ![i].state = "gone"]
    /\ ev' = NoEvent
    /\ UNCHANGED <<eip, active, ssmKey, keyPairs, sgs, amis, store, snaps, ebs, pc, ctx, nextId, keyFile, clock, sentinel>>

(* ------------------------------------------------------------ reconcile *)
\* Provisioner.reconcile(extra_regions) as its own operation.  listOk = FALSE:
\* a listing call raised, before any record was touched.
Reconcile(h, extra, activeOk, listOk) ==
    LET regions == ScanRegions(store[h], extra, activeOk) IN
    /\ Begin(h)
    /\ ~listOk => activeOk
    /\ UNCHANGED <<pc, ctx>>
    /\ IF listOk
       THEN /\ store' = [store EXCEPT ![h] = ReconciledStore(store[h], regions)]
            /\ snaps' = [snaps EXCEPT ![h] = ReconciledSnaps(snaps[h], regions)]
            /\ ev' = [Event(h, "reconcile", "ok", "", 0) EXCEPT !.scan = regions]
       ELSE /\ UNCHANGED <<store, snaps>>
            /\ ev' = Event(h, "reconcile", "raised", "list", 0)
    /\ UNCHANGED <<cloudVars, nextId, keyFile, clock, sentinel>>

(* --------------------------------------------------------------- launch *)
\* terminate_instances: a live instance starts shutting down and the cloud
\* drops its elastic-IP association.
Terminated(v) == [v EXCEPT !.state = IF v.state \in {"pending", "running", "stopping", "stopped"}
                                     THEN "terminated" ELSE v.state]
Disassociated(e, i) == [a \in EipIds |-> IF e[a].inst = i THEN [e[a] EXCEPT !.inst = 0] ELSE e[a]]

\* A name check that consults the local store only.
NameTakenLocally(s, n, seen) == name_exists(s, n)

\* Lines 317-329: the name is in the local store, or carried by an instance
\* listed in one of the regions the cloud name check got to see.
NameTaken(s, n, seen) ==
    \/ name_exists(s, n)
    \/ \E r \in seen : \E i \in find_gsm_instances(r) : vm[i].name = n

\* Lines 308-387: the best-effort reconcile, the name checks and the argument
\* checks.  rec: how the leading reconcile went; seen: the regions the cloud
\* name check listed before a transport error (if any) ended it.
LaunchChecked(h, given, region, snap, overrides, missing, rec, seen) ==
    LET regions == ScanRegions(store[h], {}, rec = "ok")
        s1 == IF rec = "raised" THEN store[h] ELSE ReconciledStore(store[h], regions)
        id == nextId
        n == IF given THEN "alpha" ELSE DefaultName(id)
    IN /\ store' = [store EXCEPT ![h] = s1]
       /\ snaps' = [snaps EXCEPT ![h] = IF rec = "raised" THEN snaps[h]
                                        ELSE ReconciledSnaps(snaps[h], regions)]
       /\ IF NameTaken(s1, n, seen)
          THEN Return(h, "launch", "already_exists", "", 0) /\ UNCHANGED nextId
          ELSE IF snap # 0 /\ overrides
          THEN Return(h, "launch", "bad_args", "", 0) /\ UNCHANGED nextId
          ELSE IF snap = 0 /\ missing
          THEN Return(h, "launch", "missing_config", "", 0) /\ UNCHANGED nextId
          ELSE /\ Goto(h, "l_prep", [IdleCtx EXCEPT !.id = id, !.name = n, !.region = region,
                                                     !.snap = snap,
                                                     !.checked = (seen = active \cup {region})])
               /\ nextId' = nextId + 1

LaunchStart(h, given, region, snap, overrides, missing, rec, seen) ==
    /\ Begin(h)
    /\ nextId <= MaxServers
    /\ seen \subseteq (active \cup {region})
    /\ LaunchChecked(h, given, region, snap, overrides, missing, rec, seen)
    /\ UNCHANGED <<cloudVars, keyFile, clock, sentinel>>

\* The instance run_instance creates, with the tags launch_instance writes
\* (gsm:container-name is left empty for a restore, line 439).
\* A restored root volume carries the container of the snapshotted server.
NewVm(c) == [state |-> "pending", name |-> c.name, region |-> c.region, gen |-> 1,
             ctr |-> IF c.snap # 0 THEN "exited" ELSE "none",
             cname |-> IF c.snap # 0 THEN OldCn(c.snap) ELSE 0,
             tagEip |-> 0, tagCS |-> FALSE,
             tagCn |-> IF c.snap # 0 THEN 0 ELSE DefaultCn(c.id)]

\* Lines 389-441: VPC lookup, ensure_key_pair, image, security group,
\* run_instance.  stage: the first call that raises (1 VPC, 2 key pair import
\* after the parameter-store upload, 3 image, 4 security group, 5 run_instance;
\* 6: none).  A from_snapshot id without a snapshot record raises at stage 3.
SnapshotMissing(h) == ctx[h].snap # 0 /\ ctx[h].snap \notin snaps[h]

PrepStage(h, stage) == IF stage >= 3 /\ SnapshotMissing(h) THEN 3 ELSE stage

PrepError(h, stage) ==
    CASE PrepStage(h, stage) = 1 -> "vpc"
      [] PrepStage(h, stage) = 2 -> "key_pair"
      [] PrepStage(h, stage) = 3 -> IF SnapshotMissing(h) THEN "snapshot_not_found" ELSE "image"
      [] PrepStage(h, stage) = 4 -> "security_group"
      [] OTHER -> "run_instance"

LaunchPrep(h, stage) ==
    LET c == ctx[h]
        f == PrepStage(h, stage)
    IN /\ pc[h] = "l_prep"
       /\ ssmKey' = (ssmKey \/ f >= 2)
       /\ keyPairs' = IF f >= 3 THEN keyPairs \cup {c.region} ELSE keyPairs
       /\ amis' = IF f >= 4 /\ c.snap # 0 THEN amis \cup {c.id} ELSE amis
       /\ sgs' = IF f >= 5 THEN sgs \cup {c.region} ELSE sgs
       /\ vm' = IF f = 6 THEN [vm EXCEPT ![c.id] = NewVm(c)] ELSE vm
       /\ IF f = 6 THEN Goto(h, "l_track", [c EXCEPT !.checked = FALSE])
          ELSE Return(h, "launch", "raised", PrepError(h, stage), c.id)
       /\ UNCHANGED <<eip, active, store, snaps, ebs, nextId, keyFile, clock, sentinel>>

\* Lines 449-460: the record saved right after run_instance.
InitialRecord(c) == [name |-> c.name, region |-> c.region, status |-> "launching",
                     ip |-> 0, eip |-> 0, eipIp |-> 0, cn |-> DefaultCn(c.id)]

\* A launch that saves nothing before the final save.
SaveInitialSkipped(h) == UNCHANGED store

SaveInitial(h) == store' = [store EXCEPT ![h] = Put(store[h], ctx[h].id, InitialRecord(ctx[h]))]

\* Lines 443-460 with _add_active_region up to its read of the parameter:
\* when the read raises (swallowed) or the region is already listed, nothing is
\* written and the initial record is saved.
LaunchTrack(h, readOk) ==
    /\ pc[h] = "l_track"
    /\ IF readOk /\ ctx[h].region \notin active
       THEN Goto(h, "l_put", [ctx[h] EXCEPT !.cur = active]) /\ UNCHANGED store
       ELSE Goto(h, "l_wait", ctx[h]) /\ SaveInitial(h)
    /\ UNCHANGED <<cloudVars, snaps, nextId, keyFile, clock, sentinel>>

\* _add_active_region's put_parameter (Overwrite=True) of the set it read, then
\* the initial save.
LaunchPut(h, putOk) ==
    /\ pc[h] = "l_put"
    /\ active' = IF putOk THEN ctx[h].cur \cup {ctx[h].region} ELSE active
    /\ SaveInitial(h)
    /\ Goto(h, "l_wait", [ctx[h] EXCEPT !.cur = {}])
    /\ UNCHANGED <<vm, eip, ssmKey, keyPairs, sgs, amis, snaps, ebs, nextId, keyFile, clock, sentinel>>

\* Lines 654-658 / 592-596: best-effort deregister of the restore image.
Deregistered(c, deregOk) == IF deregOk THEN amis \ {c.id} ELSE amis

\* A cleanup handler that deletes the record whether or not terminate_instance
\* went through.
LaunchCleanupDropsRecord(h, err, termOk, deregOk) ==
    LET c == ctx[h] IN
    /\ termOk => vm[c.id].state # "gone"
    /\ amis' = Deregistered(c, deregOk)
    /\ store' = [store EXCEPT ![h] = Drop(store[h], c.id)]
    /\ IF termOk
       THEN /\ vm' = [vm EXCEPT ![c.id] = Terminated(vm[c.id])]
            /\ eip' = Disassociated(eip, c.id)
            /\ Return(h, "launch", "raised_cleaned", err, c.id)
       ELSE /\ UNCHANGED <<vm, eip>>
            /\ Return(h, "launch", "raised_kept", err, c.id)

\* Lines 586-604: the cleanup handler of launch, entered with the error err.
\* termOk: terminate_instance returned.
LaunchCleanup(h, err, termOk, deregOk) ==
    LET c == ctx[h] IN
    /\ termOk => vm[c.id].state # "gone"
    /\ amis' = Deregistered(c, deregOk)
    /\ IF termOk
       THEN /\ vm' = [vm EXCEPT ![c.id] = Terminated(vm[c.id])]
            /\ eip' = Disassociated(eip, c.id)
            /\ store' = [store EXCEPT ![h] = Drop(store[h], c.id)]
            /\ Return(h, "launch", "raised_cleaned", err, c.id)
       ELSE /\ UNCHANGED <<vm, eip, store>>
            /\ Return(h, "launch", "raised_kept", err, c.id)

\* Lines 465-469: wait_for_instance_running, get_instance_public_ip.
LaunchWait(h, out, termOk, deregOk) ==
    /\ pc[h] = "l_wait"
    /\ IF out = "ok"
       THEN /\ vm[ctx[h].id].state = "running"
            /\ Goto(h, "l_boot", [ctx[h] EXCEPT !.ip = InstIp(ctx[h].id)])
            /\ UNCHANGED <<vm, eip, amis, store>>
       ELSE LaunchCleanup(h, out, termOk, deregOk)
    /\ UNCHANGED <<active, ssmKey, keyPairs, sgs, snaps, ebs, nextId, keyFile, clock, sentinel>>

\* Lines 606-617: the record of the final save.
FinalRecord(c) == [name |-> c.name, region |-> c.region, status |-> "running",
                   ip |-> c.ip, eip |-> 0, eipIp |-> 0, cn |-> c.cn]

\* Whether host h can reach the instance over SSH at the address it holds.
Reachable(i, ip) == vm[i].state = "running" /\ ip # 0 /\ InstIp(i) = ip

\* The container a launch starts: a new one under the default name, or for a
\* restore the one found on the volume, whose name goes into the
\* gsm:container-name tag unless the tag write fails (swallowed, 509-512).
Booted(v, c, tagOk) ==
    IF c.snap # 0
    THEN [v EXCEPT !.ctr = "running", !.tagCn = IF tagOk THEN v.cname ELSE v.tagCn]
    ELSE [v EXCEPT !.ctr = "running", !.cname = DefaultCn(c.id)]

\* Lines 471-585: SSH connect, wait_for_docker, the container is created and
\* started (restore: the one found on the volume is started).  out: "ok";
\* "notag" (restore only); or the call that raised.
LaunchBoot(h, out, termOk, deregOk) ==
    LET c == ctx[h] IN
    /\ pc[h] = "l_boot"
    /\ (out = "notag") => c.snap # 0
    /\ IF out \in {"ok", "notag"}
       THEN /\ Reachable(c.id, c.ip)
            /\ vm' = [vm EXCEPT ![c.id] = Booted(vm[c.id], c, out = "ok")]
            /\ UNCHANGED <<eip, amis, store>>
            /\ Goto(h, "l_save", [c EXCEPT !.cn = Booted(vm[c.id], c, TRUE).cname])
       ELSE LaunchCleanup(h, out, termOk, deregOk)
    /\ UNCHANGED <<active, ssmKey, keyPairs, sgs, snaps, ebs, nextId, keyFile, clock, sentinel>>

\* Lines 606-632 and, without pin_ip, 654-660: the final save, after the
\* cleanup handler's try block.
LaunchSave(h, pin, deregOk) ==
    LET c == ctx[h] IN
    /\ pc[h] = "l_save"
    /\ store' = [store EXCEPT ![h] = Put(store[h], c.id, FinalRecord(c))]
    /\ IF pin
       THEN Goto(h, "l_pin", c) /\ UNCHANGED amis
       ELSE Return(h, "launch", "ok", "", c.id) /\ amis' = Deregistered(c, deregOk)
    /\ UNCHANGED <<vm, eip, active, ssmKey, keyPairs, sgs, snaps, ebs, nextId, keyFile, clock, sentinel>>

\* allocate_address hands out a fresh allocation id (0: the address limit is
\* reached and the call fails).
FreshEip == IF \E a \in EipIds : eip[a].st = "none"
            THEN CHOOSE a \in EipIds : eip[a].st = "none" /\ \A b \in EipIds : eip[b].st = "none" => a <= b
            ELSE 0

\* associate_address: the address moves to instance i; an address the instance
\* held before is disassociated.
Associated(e, a, i) ==
    [b \in EipIds |-> IF b = a THEN [e[b] EXCEPT !.inst = i] ELSE Disassociated(e, i)[b]]

Allocated(e, a, sid, region) ==
    [e EXCEPT ![a] = [st |-> "allocated", sid |-> sid, region |-> region, inst |-> 0]]

\* release_address: the allocation id is never handed out again.
Released(e, a) == [e EXCEPT ![a] = [e[a] EXCEPT !.st = "released", !.inst = 0]]

\* Lines 634-660: the pin step after the final save, outside the cleanup
\* handler.  out: "allocate" / "associate" raise; "leak": associate raises and
\* so does the release; "ok"; "notag": the tag write fails (swallowed).
LaunchPin(h, out, deregOk) ==
    LET c == ctx[h]
        a == FreshEip
    IN
    /\ pc[h] = "l_pin"
    /\ (a = 0) => (out = "allocate")
    /\ CASE out = "allocate" ->
              /\ UNCHANGED <<vm, eip, store, amis>>
              /\ Return(h, "launch", "raised", "pin_allocate", c.id)
         [] out = "associate" ->
              /\ eip' = Released(Allocated(eip, a, c.id, c.region), a)
              /\ UNCHANGED <<vm, store, amis>>
              /\ Return(h, "launch", "raised", "pin_associate", c.id)
         [] out = "leak" ->
              /\ eip' = Allocated(eip, a, c.id, c.region)
              /\ UNCHANGED <<vm, store, amis>>
              /\ Return(h, "launch", "raised", "pin_release", c.id)
         [] OTHER ->
              /\ eip' = Associated(Allocated(eip, a, c.id, c.region), a, c.id)
              /\ store' = [store EXCEPT ![h] =
                             Put(store[h], c.id, [FinalRecord(c) EXCEPT !.eip = a, !.eipIp = EipAddr(a), !.ip = EipAddr(a)])]
              /\ vm' = IF out = "ok" THEN [vm EXCEPT ![c.id].tagEip = a] ELSE vm
              /\ amis' = Deregistered(c, deregOk)
              /\ Return(h, "launch", "ok", "", c.id)
    /\ UNCHANGED <<active, ssmKey, keyPairs, sgs, snaps, ebs, nextId, keyFile, clock, sentinel>>

(* -------------------------------------------------------- refresh_record *)
\* describe_instances finds no usable instance: terminated, shutting down, or
\* InvalidInstanceID.NotFound.
Vanished(i) == vm[i].state \in {"terminated", "gone"}

\* Lines 248-286: the record _refresh_record leaves for an instance that is
\* still there.  eipsOk = FALSE: find_gsm_eips raised (swallowed).
RefreshedRecord(r, i, eipsOk) ==
    LET mapped == StateMapGet(vm[i].state, r.status)
        st == IF mapped = "running" /\ (r.status = "stopped" \/ vm[i].tagCS)
              THEN "stopped" ELSE mapped
        tagEip == vm[i].tagEip
    IN [r EXCEPT !.status = st,
                 !.ip = InstIp(i),
                 !.eip = tagEip,
                 !.eipIp = IF tagEip = r.eip THEN r.eipIp
                           ELSE IF tagEip = 0 THEN 0
                           ELSE IF eipsOk /\ tagEip \in find_gsm_eips(r.region)
                                THEN EipAddr(tagEip) ELSE r.eipIp,
                 !.cn = IF vm[i].tagCn # 0 THEN vm[i].tagCn ELSE r.cn]

\* Provisioner._refresh_record: the store it leaves (the record is deleted when
\* the instance vanished).
RefreshedStore(s, i, eipsOk) ==
    IF i \notin DOMAIN s THEN s
    ELSE IF Vanished(i) THEN Drop(s, i)
    ELSE Put(s, i, RefreshedRecord(s[i], i, eipsOk))

RefreshOuts == {"ok", "noeips", "raised"}

\* The common opening of pause, resume and stop_container: refresh, then
\* "Server not found" when no record is returned.  Yields the store and whether
\* the operation goes on.
Refreshed(h, i, rf) == IF rf = "raised" THEN store[h] ELSE RefreshedStore(store[h], i, rf = "ok")

\* Lines 261-268: find_gsm_eips is called, and so can raise, only for a tag
\* that names an elastic IP other than the record's.
RefreshCalls(h, i, rf) ==
    rf = "noeips" => /\ i \in DOMAIN store[h]
                     /\ ~Vanished(i)
                     /\ vm[i].tagEip \notin {0, store[h][i].eip}

(* ---------------------------------------------------- _resolve_container *)
\* Lines 721-744, given that the instance has a container: when no container
\* has the record's name, the one found on the instance is taken, its name
\* saved in the record and, best effort, in the gsm:container-name tag.
Resolved(s, i) ==
    IF vm[i].cname # s[i].cn THEN Put(s, i, [s[i] EXCEPT !.cn = vm[i].cname]) ELSE s

Renamed(v, r, tagOk) ==
    IF v.cname # r.cn /\ tagOk THEN [v EXCEPT !.tagCn = v.cname] ELSE v

(* ---------------------------------------------------------------- pause *)
\* docker stop over SSH, best effort (lines 754-767).
ContainerStopped(v) == [v EXCEPT !.ctr = IF v.ctr = "running" THEN "exited" ELSE v.ctr]

\* A pause that gives up when the container cannot be stopped.
PauseStartNeedsContainer(h, i, rf, ctrOk) ==
    LET s1 == Refreshed(h, i, rf) IN
    /\ Begin(h)
    /\ RefreshCalls(h, i, rf)
    /\ store' = [store EXCEPT ![h] = s1]
    /\ ~ctrOk => rf # "raised" /\ i \in DOMAIN s1 /\ s1[i].status # "paused"
    /\ IF rf = "raised" /\ i \in DOMAIN store[h]
       THEN Return(h, "pause", "raised", "refresh", i) /\ UNCHANGED vm
       ELSE IF i \notin DOMAIN s1
       THEN Return(h, "pause", "not_found", "", i) /\ UNCHANGED vm
       ELSE IF s1[i].status = "paused"
       THEN Return(h, "pause", "already_paused", "", i) /\ UNCHANGED vm
       ELSE IF ctrOk /\ Reachable(i, s1[i].ip) /\ s1[i].cn = vm[i].cname
       THEN /\ Goto(h, "p_stop", [IdleCtx EXCEPT !.id = i, !.region = s1[i].region])
            /\ vm' = [vm EXCEPT ![i] = ContainerStopped(vm[i])]
       ELSE Return(h, "pause", "raised", "container", i) /\ UNCHANGED vm
    /\ UNCHANGED <<eip, active, ssmKey, keyPairs, sgs, amis, snaps, ebs, nextId, keyFile, clock, sentinel>>

\* Lines 746-767: refresh, the already-paused guard, the best-effort container
\* stop.  ctrOk = FALSE: key fetch, SSH or docker stop failed or was interrupted.
PauseStart(h, i, rf, ctrOk) ==
    LET s1 == Refreshed(h, i, rf) IN
    /\ Begin(h)
    /\ RefreshCalls(h, i, rf)
    /\ store' = [store EXCEPT ![h] = s1]
    /\ ~ctrOk => rf # "raised" /\ i \in DOMAIN s1 /\ s1[i].status # "paused"
    /\ IF rf = "raised" /\ i \in DOMAIN store[h]
       THEN Return(h, "pause", "raised", "refresh", i) /\ UNCHANGED vm
       ELSE IF i \notin DOMAIN s1
       THEN Return(h, "pause", "not_found", "", i) /\ UNCHANGED vm
       ELSE IF s1[i].status = "paused"
       THEN Return(h, "pause", "already_paused", "", i) /\ UNCHANGED vm
       ELSE /\ Goto(h, "p_stop", [IdleCtx EXCEPT !.id = i, !.region = s1[i].region])
            /\ vm' = IF ctrOk /\ Reachable(i, s1[i].ip) /\ s1[i].cn = vm[i].cname
                     THEN [vm EXCEPT ![i] = ContainerStopped(vm[i])] ELSE vm
    /\ UNCHANGED <<eip, active, ssmKey, keyPairs, sgs, amis, snaps, ebs, nextId, keyFile, clock, sentinel>>

\* How stop_instances answers in the instance's state.
StopAnswer(i) ==
    CASE vm[i].state \in {"running", "stopping", "stopped"} -> "ok"
      [] vm[i].state = "gone" -> "not_found"
      [] OTHER -> "incorrect_state"

Status(s, i, st) == UpdateIn(s, i, IF i \in DOMAIN s THEN [s[i] EXCEPT !.status = st] ELSE << >>)

\* A pause that keeps the record of an instance the cloud no longer knows.
PauseStopKeepsRecord(h, apiOk) ==
    LET i == ctx[h].id
        ans == IF apiOk THEN StopAnswer(i) ELSE "error"
    IN
    /\ pc[h] = "p_stop"
    /\ CASE ans = "ok" ->
              /\ vm' = [vm EXCEPT ![i].state = IF vm[i].state = "running" THEN "stopping" ELSE vm[i].state]
              /\ store' = [store EXCEPT ![h] = Status(store[h], i, "paused")]
              /\ Goto(h, "p_wait", ctx[h])
         [] ans = "not_found" ->
              /\ UNCHANGED <<vm, store>>
              /\ Return(h, "pause", "terminated_externally", "", i)
         [] ans = "incorrect_state" ->
              /\ store' = [store EXCEPT ![h] = Status(store[h], i, "paused")]
              /\ UNCHANGED vm
              /\ Return(h, "pause", "ok", "", i)
         [] OTHER ->
              /\ UNCHANGED <<vm, store>>
              /\ Return(h, "pause", "raised", "stop", i)
    /\ UNCHANGED <<eip, active, ssmKey, keyPairs, sgs, amis, snaps, ebs, nextId, keyFile, clock, sentinel>>

\* A pause that leaves the status update to the end of the wait.
PauseStopLate(h, apiOk) ==
    LET i == ctx[h].id
        ans == IF apiOk THEN StopAnswer(i) ELSE "error"
    IN
    /\ pc[h] = "p_stop"
    /\ CASE ans = "ok" ->
              /\ vm' = [vm EXCEPT ![i].state = IF vm[i].state = "running" THEN "stopping" ELSE vm[i].state]
              /\ UNCHANGED store
              /\ Goto(h, "p_wait", ctx[h])
         [] ans = "not_found" ->
              /\ store' = [store EXCEPT ![h] = Drop(store[h], i)]
              /\ UNCHANGED vm
              /\ Return(h, "pause", "terminated_externally", "", i)
         [] ans = "incorrect_state" ->
              /\ store' = [store EXCEPT ![h] = Status(store[h], i, "paused")]
              /\ UNCHANGED vm
              /\ Return(h, "pause", "ok", "", i)
         [] OTHER ->
              /\ UNCHANGED <<vm, store>>
              /\ Return(h, "pause", "raised", "stop", i)
    /\ UNCHANGED <<eip, active, ssmKey, keyPairs, sgs, amis, snaps, ebs, nextId, keyFile, clock, sentinel>>

\* Lines 769-784: stop_instance and the status update.  apiOk = FALSE: another
\* client error or a transport error.
PauseStop(h, apiOk) ==
    LET i == ctx[h].id
        ans == IF apiOk THEN StopAnswer(i) ELSE "error"
    IN
    /\ pc[h] = "p_stop"
    /\ CASE ans = "ok" ->
              /\ vm' = [vm EXCEPT ![i].state = IF vm[i].state = "running" THEN "stopping" ELSE vm[i].state]
              /\ store' = [store EXCEPT ![h] = Status(store[h], i, "paused")]
              /\ Goto(h, "p_wait", ctx[h])
         [] ans = "not_found" ->
              /\ store' = [store EXCEPT ![h] = Drop(store[h], i)]
              /\ UNCHANGED vm
              /\ Return(h, "pause", "terminated_externally", "", i)
         [] ans = "incorrect_state" ->
              /\ store' = [store EXCEPT ![h] = Status(store[h], i, "paused")]
              /\ UNCHANGED vm
              /\ Return(h, "pause", "ok", "", i)
         [] OTHER ->
              /\ UNCHANGED <<vm, store>>
              /\ Return(h, "pause", "raised", "stop", i)
    /\ UNCHANGED <<eip, active, ssmKey, keyPairs, sgs, amis, snaps, ebs, nextId, keyFile, clock, sentinel>>

\* Lines 786-790: wait_for_instance_stopped returns once the instance is stopped
\* (waitOk), or raises (timeout, transport error), which is swallowed.
PauseWait(h, waitOk) ==
    /\ pc[h] = "p_wait"
    /\ waitOk => vm[ctx[h].id].state = "stopped"
    /\ Return(h, "pause", "ok", "", ctx[h].id)
    /\ UNCHANGED <<cloudVars, store, snaps, nextId, keyFile, clock, sentinel>>

(* --------------------------------------------------------------- resume *)
\* How start_instances answers in the instance's state.
StartAnswer(i) ==
    CASE vm[i].state \in {"stopped", "pending", "running"} -> "ok"
      [] vm[i].state = "gone" -> "not_found"
      [] OTHER -> "incorrect_state"

\* start_instances on a stopped instance: it boots with a new ephemeral address.
Started(v) == IF v.state = "stopped" THEN [v EXCEPT !.state = "pending", !.gen = 3 - v.gen] ELSE v

\* docker start of an existing container; the container-stopped tag is
\* deleted unless the tag call fails (swallowed).
ContainerStarted(v, tagOk) == [v EXCEPT !.ctr = "running", !.tagCS = IF tagOk THEN FALSE ELSE v.tagCS]

\* A resume that marks a "stopped" record "running" before its container starts.
ResumeStartMarksFirst(h, i, rf, out) ==
    LET s1 == Refreshed(h, i, rf) IN
    /\ Begin(h)
    /\ RefreshCalls(h, i, rf)
    /\ (out # "ok") => rf # "raised" /\ i \in DOMAIN s1 /\ s1[i].status = "stopped"
    /\ IF rf = "raised" /\ i \in DOMAIN store[h]
       THEN /\ Return(h, "resume", "raised", "refresh", i)
            /\ UNCHANGED <<vm, store>>
       ELSE IF i \notin DOMAIN s1
       THEN /\ Return(h, "resume", "not_found", "", i)
            /\ store' = [store EXCEPT ![h] = s1]
            /\ UNCHANGED vm
       ELSE IF s1[i].status \notin {"paused", "stopped"}
       THEN /\ Return(h, "resume", "not_paused", "", i)
            /\ store' = [store EXCEPT ![h] = s1]
            /\ UNCHANGED vm
       ELSE IF s1[i].status = "stopped"
       THEN IF out \in {"ok", "notag"} /\ Reachable(i, s1[i].ip) /\ vm[i].ctr # "none"
            THEN /\ vm' = [vm EXCEPT ![i] = ContainerStarted(Renamed(vm[i], s1[i], out = "ok"), out = "ok")]
                 /\ store' = [store EXCEPT ![h] = Status(Resolved(s1, i), i, "running")]
                 /\ Return(h, "resume", "ok", "", i)
            ELSE IF out = "start" /\ Reachable(i, s1[i].ip) /\ vm[i].ctr # "none"
            THEN /\ vm' = [vm EXCEPT ![i] = Renamed(vm[i], s1[i], TRUE)]
                 /\ store' = [store EXCEPT ![h] = Resolved(s1, i)]
                 /\ Return(h, "resume", "raised", "container", i)
            ELSE /\ store' = [store EXCEPT ![h] = Status(s1, i, "running")]
                 /\ UNCHANGED vm
                 /\ Return(h, "resume", "raised", "container", i)
       ELSE /\ store' = [store EXCEPT ![h] = s1]
            /\ UNCHANGED vm
            /\ Goto(h, "r_start", [IdleCtx EXCEPT !.id = i, !.region = s1[i].region])
    /\ UNCHANGED <<eip, active, ssmKey, keyPairs, sgs, amis, snaps, ebs, nextId, keyFile, clock, sentinel>>

\* Lines 792-802 and 852-870: refresh, the status guard, then for a "stopped"
\* record _resume_container; a "paused" one goes on to start_instance.
\* out: "ok"; "notag": the tag calls fail (swallowed); "start": docker start
\* raises, after _resolve_container; "raised": an earlier call raises.
ResumeStart(h, i, rf, out) ==
    LET s1 == Refreshed(h, i, rf) IN
    /\ Begin(h)
    /\ RefreshCalls(h, i, rf)
    /\ (out # "ok") => rf # "raised" /\ i \in DOMAIN s1 /\ s1[i].status = "stopped"
    /\ IF rf = "raised" /\ i \in DOMAIN store[h]
       THEN /\ Return(h, "resume", "raised", "refresh", i)
            /\ UNCHANGED <<vm, store>>
       ELSE IF i \notin DOMAIN s1
       THEN /\ Return(h, "resume", "not_found", "", i)
            /\ store' = [store EXCEPT ![h] = s1]
            /\ UNCHANGED vm
       ELSE IF s1[i].status \notin {"paused", "stopped"}
       THEN /\ Return(h, "resume", "not_paused", "", i)
            /\ store' = [store EXCEPT ![h] = s1]
            /\ UNCHANGED vm
       ELSE IF s1[i].status = "stopped"
       THEN IF out \in {"ok", "notag"} /\ Reachable(i, s1[i].ip) /\ vm[i].ctr # "none"
            THEN /\ vm' = [vm EXCEPT ![i] = ContainerStarted(Renamed(vm[i], s1[i], out = "ok"), out = "ok")]
                 /\ store' = [store EXCEPT ![h] = Status(Resolved(s1, i), i, "running")]
                 /\ Return(h, "resume", "ok", "", i)
            ELSE IF out = "start" /\ Reachable(i, s1[i].ip) /\ vm[i].ctr # "none"
            THEN /\ vm' = [vm EXCEPT ![i] = Renamed(vm[i], s1[i], TRUE)]
                 /\ store' = [store EXCEPT ![h] = Resolved(s1, i)]
                 /\ Return(h, "resume", "raised", "container", i)
            ELSE /\ store' = [store EXCEPT ![h] = s1]
                 /\ UNCHANGED vm
                 /\ Return(h, "resume", "raised", "container", i)
       ELSE /\ store' = [store EXCEPT ![h] = s1]
            /\ UNCHANGED vm
            /\ Goto(h, "r_start", [IdleCtx EXCEPT !.id = i, !.region = s1[i].region])
    /\ UNCHANGED <<eip, active, ssmKey, keyPairs, sgs, amis, snaps, ebs, nextId, keyFile, clock, sentinel>>

\* Lines 803-811: start_instance.  NotFound: the record is deleted and resume
\* raises "terminated externally"; any other error propagates.
ResumeStartInstance(h, apiOk) ==
    LET i == ctx[h].id
        ans == IF apiOk THEN StartAnswer(i) ELSE "error"
    IN
    /\ pc[h] = "r_start"
    /\ CASE ans = "ok" ->
              /\ vm' = [vm EXCEPT ![i] = Started(vm[i])]
              /\ UNCHANGED store
              /\ Goto(h, "r_wait", ctx[h])
         [] ans = "not_found" ->
              /\ store' = [store EXCEPT ![h] = Drop(store[h], i)]
              /\ UNCHANGED vm
              /\ Return(h, "resume", "terminated_externally", "", i)
         [] OTHER ->
              /\ UNCHANGED <<vm, store>>
              /\ Return(h, "resume", "raised", "start", i)
    /\ UNCHANGED <<eip, active, ssmKey, keyPairs, sgs, amis, snaps, ebs, nextId, keyFile, clock, sentinel>>

\* A resume that saves the address and the status only once the container runs.
ResumeWaitSavesLate(h, out) ==
    LET i == ctx[h].id
        r == store[h][i]
        pinned == r.eip # 0
        canAssoc == eip[r.eip].st = "allocated"
        newIp == IF pinned THEN r.eipIp ELSE InstIp(i)
    IN
    /\ pc[h] = "r_wait"
    /\ IF out = "ok" /\ vm[i].state = "running" /\ (pinned => canAssoc)
       THEN /\ eip' = IF pinned THEN Associated(eip, r.eip, i) ELSE eip
            /\ UNCHANGED store
            /\ Goto(h, "r_ctr", [ctx[h] EXCEPT !.ip = newIp])
       ELSE /\ out # "ok"
            /\ (out = "associate") => pinned /\ vm[i].state = "running"
            /\ (out = "get_ip") => ~pinned /\ vm[i].state = "running"
            /\ UNCHANGED <<eip, store>>
            /\ Return(h, "resume", "raised", out, i)
    /\ UNCHANGED <<vm, active, ssmKey, keyPairs, sgs, amis, snaps, ebs, nextId, keyFile, clock, sentinel>>

\* Lines 813-825: wait_for_instance_running, then the pinned address is
\* associated again or the new ephemeral address fetched; the address and
\* status "running" are saved.  out: "ok", or the call that raised.
ResumeWait(h, out) ==
    LET i == ctx[h].id
        r == store[h][i]
        pinned == r.eip # 0
        canAssoc == eip[r.eip].st = "allocated"
        newIp == IF pinned THEN r.eipIp ELSE InstIp(i)
    IN
    /\ pc[h] = "r_wait"
    /\ IF out = "ok" /\ vm[i].state = "running" /\ (pinned => canAssoc)
       THEN /\ eip' = IF pinned THEN Associated(eip, r.eip, i) ELSE eip
            /\ store' = [store EXCEPT ![h] = Put(store[h], i, [r EXCEPT !.ip = newIp, !.status = "running"])]
            /\ Goto(h, "r_ctr", [ctx[h] EXCEPT !.ip = newIp])
       ELSE /\ out # "ok"
            /\ (out = "associate") => pinned /\ vm[i].state = "running"
            /\ (out = "get_ip") => ~pinned /\ vm[i].state = "running"
            /\ UNCHANGED <<eip, store>>
            /\ Return(h, "resume", "raised", out, i)
    /\ UNCHANGED <<vm, active, ssmKey, keyPairs, sgs, amis, snaps, ebs, nextId, keyFile, clock, sentinel>>

\* Lines 827-850: SSH, _resolve_container, docker start, the tag delete; any
\* failure raises the diagnostic RuntimeError and rolls nothing back.
ResumeCtr(h, out) ==
    LET i == ctx[h].id
        s == store[h]
    IN
    /\ pc[h] = "r_ctr"
    /\ IF out \in {"ok", "notag"} /\ Reachable(i, ctx[h].ip) /\ vm[i].ctr # "none"
       THEN /\ vm' = [vm EXCEPT ![i] = ContainerStarted(Renamed(vm[i], s[i], out = "ok"), out = "ok")]
            /\ store' = [store EXCEPT ![h] = Resolved(s, i)]
            /\ Return(h, "resume", "ok", "", i)
       ELSE IF out = "start" /\ Reachable(i, ctx[h].ip) /\ vm[i].ctr # "none"
       THEN /\ vm' = [vm EXCEPT ![i] = Renamed(vm[i], s[i], TRUE)]
            /\ store' = [store EXCEPT ![h] = Resolved(s, i)]
            /\ Return(h, "resume", "raised", "container", i)
       ELSE /\ UNCHANGED <<vm, store>>
            /\ Return(h, "resume", "raised", "container", i)
    /\ UNCHANGED <<eip, active, ssmKey, keyPairs, sgs, amis, snaps, ebs, nextId, keyFile, clock, sentinel>>

(* ------------------------------------------------------- stop_container *)
\* A stop_container that writes the container-stopped tag before it looks at
\* the status.
StopContainerTagsFirst(h, i, rf, out) ==
    LET s1 == Refreshed(h, i, rf) IN
    /\ Begin(h)
    /\ RefreshCalls(h, i, rf)
    /\ (out # "ok") => rf # "raised" /\ i \in DOMAIN s1 /\ s1[i].status = "running"
    /\ IF rf = "raised" /\ i \in DOMAIN store[h]
       THEN /\ Return(h, "stop_container", "raised", "refresh", i)
            /\ UNCHANGED <<vm, store>>
       ELSE IF i \notin DOMAIN s1
       THEN /\ Return(h, "stop_container", "not_found", "", i)
            /\ store' = [store EXCEPT ![h] = s1]
            /\ UNCHANGED vm
       ELSE IF s1[i].status # "running"
       THEN /\ Return(h, "stop_container", "not_running", "", i)
            /\ store' = [store EXCEPT ![h] = s1]
            /\ vm' = [vm EXCEPT ![i].tagCS = TRUE]
       ELSE IF out \in {"ok", "notag"} /\ Reachable(i, s1[i].ip) /\ vm[i].ctr # "none"
       THEN /\ vm' = [vm EXCEPT ![i] = [ContainerStopped(Renamed(vm[i], s1[i], out = "ok"))
                                          EXCEPT !.tagCS = (out = "ok") \/ vm[i].tagCS]]
            /\ store' = [store EXCEPT ![h] = Status(Resolved(s1, i), i, "stopped")]
            /\ Return(h, "stop_container", "ok", "", i)
       ELSE IF out = "stop" /\ Reachable(i, s1[i].ip) /\ vm[i].ctr # "none"
       THEN /\ vm' = [vm EXCEPT ![i] = Renamed(vm[i], s1[i], TRUE)]
            /\ store' = [store EXCEPT ![h] = Resolved(s1, i)]
            /\ Return(h, "stop_container", "raised", "container", i)
       ELSE /\ store' = [store EXCEPT ![h] = s1]
            /\ UNCHANGED vm
            /\ Return(h, "stop_container", "raised", "container", i)
    /\ UNCHANGED <<eip, active, ssmKey, keyPairs, sgs, amis, snaps, ebs, nextId, keyFile, clock, sentinel>>

\* Lines 872-894.  out: "ok"; "notag": the tag writes fail (swallowed);
\* "stop": docker stop raises, after _resolve_container; "raised": an earlier
\* call raises.
StopContainer(h, i, rf, out) ==
    LET s1 == Refreshed(h, i, rf) IN
    /\ Begin(h)
    /\ RefreshCalls(h, i, rf)
    /\ (out # "ok") => rf # "raised" /\ i \in DOMAIN s1 /\ s1[i].status = "running"
    /\ IF rf = "raised" /\ i \in DOMAIN store[h]
       THEN /\ Return(h, "stop_container", "raised", "refresh", i)
            /\ UNCHANGED <<vm, store>>
       ELSE IF i \notin DOMAIN s1
       THEN /\ Return(h, "stop_container", "not_found", "", i)
            /\ store' = [store EXCEPT ![h] = s1]
            /\ UNCHANGED vm
       ELSE IF s1[i].status # "running"
       THEN /\ Return(h, "stop_container", "not_running", "", i)
            /\ store' = [store EXCEPT ![h] = s1]
            /\ UNCHANGED vm
       ELSE IF out \in {"ok", "notag"} /\ Reachable(i, s1[i].ip) /\ vm[i].ctr # "none"
       THEN /\ vm' = [vm EXCEPT ![i] = [ContainerStopped(Renamed(vm[i], s1[i], out = "ok"))
                                          EXCEPT !.tagCS = (out = "ok") \/ vm[i].tagCS]]
            /\ store' = [store EXCEPT ![h] = Status(Resolved(s1, i), i, "stopped")]
            /\ Return(h, "stop_container", "ok", "", i)
       ELSE IF out = "stop" /\ Reachable(i, s1[i].ip) /\ vm[i].ctr # "none"
       THEN /\ vm' = [vm EXCEPT ![i] = Renamed(vm[i], s1[i], TRUE)]
            /\ store' = [store EXCEPT ![h] = Resolved(s1, i)]
            /\ Return(h, "stop_container", "raised", "container", i)
       ELSE /\ store' = [store EXCEPT ![h] = s1]
            /\ UNCHANGED vm
            /\ Return(h, "stop_container", "raised", "container", i)
    /\ UNCHANGED <<eip, active, ssmKey, keyPairs, sgs, amis, snaps, ebs, nextId, keyFile, clock, sentinel>>

(* ------------------------------------------------------ pin_ip, unpin_ip *)
\* associate_address is refused for an instance that is not there or not yet
\* running.
CanAssociate(i) == vm[i].state \in {"running", "stopping", "stopped"}

\* set_instance_tag / delete_instance_tag of gsm:eip-alloc-id, best effort.
EipTagged(v, i, a, tagOk) == IF tagOk /\ v[i].state \notin {"none", "gone"} THEN [v EXCEPT ![i].tagEip = a] ELSE v

\* Lines 896-923.  out: "ok"; "notag"; "allocate" / "associate": the call
\* raises; "leak": associate raises and so does the release.
PinIp(h, i, out) ==
    LET s == store[h]
        a == FreshEip
    IN
    /\ Begin(h)
    /\ (out # "ok") => i \in DOMAIN s /\ s[i].eip = 0
    /\ (out \in {"associate", "leak"}) => s[i].status \in {"running", "stopped"}
    /\ IF i \notin DOMAIN s
       THEN Return(h, "pin_ip", "not_found", "", i) /\ UNCHANGED <<vm, eip, store>>
       ELSE IF s[i].eip # 0
       THEN Return(h, "pin_ip", "already_pinned", "", i) /\ UNCHANGED <<vm, eip, store>>
       ELSE IF out = "allocate" \/ a = 0
       THEN Return(h, "pin_ip", "raised", "allocate", i) /\ UNCHANGED <<vm, eip, store>>
       ELSE IF s[i].status \in {"running", "stopped"} /\ (out \in {"associate", "leak"} \/ ~CanAssociate(i))
       THEN /\ eip' = IF out = "leak" THEN Allocated(eip, a, i, s[i].region)
                      ELSE Released(Allocated(eip, a, i, s[i].region), a)
            /\ UNCHANGED <<vm, store>>
            /\ Return(h, "pin_ip", "raised", IF out = "leak" THEN "release" ELSE "associate", i)
       ELSE LET assoc == s[i].status \in {"running", "stopped"} IN
            /\ eip' = IF assoc THEN Associated(Allocated(eip, a, i, s[i].region), a, i)
                      ELSE Allocated(eip, a, i, s[i].region)
            /\ store' = [store EXCEPT ![h] = Put(s, i,
                  [s[i] EXCEPT !.ip = IF assoc THEN EipAddr(a) ELSE s[i].ip,
                               !.eip = a, !.eipIp = EipAddr(a)])]
            /\ vm' = EipTagged(vm, i, a, out # "notag")
            /\ Return(h, "pin_ip", "ok", "", i)
    /\ UNCHANGED <<active, ssmKey, keyPairs, sgs, amis, snaps, ebs, nextId, keyFile, clock, sentinel>>

\* An instance that loses its elastic address gets a new ephemeral one.
Readdressed(v, i) == IF i # 0 THEN [v EXCEPT ![i].gen = 3 - v[i].gen] ELSE v

\* An unpin_ip that does not fetch the instance's new address.
UnpinIpKeepsAddress(h, i, out) ==
    LET s == store[h]
        a == IF i \in DOMAIN s THEN s[i].eip ELSE 0
    IN
    /\ Begin(h)
    /\ (out # "ok") => a # 0
    /\ IF i \notin DOMAIN s
       THEN Return(h, "unpin_ip", "not_found", "", i) /\ UNCHANGED <<vm, eip, store>>
       ELSE IF a = 0
       THEN Return(h, "unpin_ip", "not_pinned", "", i) /\ UNCHANGED <<vm, eip, store>>
       ELSE IF out = "disassociate" \/ eip[a].st # "allocated"
       THEN Return(h, "unpin_ip", "raised", "disassociate", i) /\ UNCHANGED <<vm, eip, store>>
       ELSE LET v1 == Readdressed(vm, eip[a].inst)
                v2 == EipTagged(v1, i, 0, out # "notag")
                cleared == [s[i] EXCEPT !.eip = 0, !.eipIp = 0]
                seesIp == s[i].status \in {"running", "stopped"}
                ipFails == seesIp /\ (out = "get_ip" \/ vm[i].state = "gone")
                newIp == IF vm[i].state \in {"pending", "running", "stopping"}
                         THEN EphAddr(i, v1[i].gen) ELSE 0
            IN
            IF out = "release"
            THEN /\ eip' = [eip EXCEPT ![a].inst = 0]
                 /\ vm' = v1
                 /\ UNCHANGED store
                 /\ Return(h, "unpin_ip", "raised", "release", i)
            ELSE /\ eip' = Released(eip, a)
                 /\ vm' = v2
                 /\ store' = [store EXCEPT ![h] = Put(s, i,
                       cleared)]
                 /\ IF ipFails THEN Return(h, "unpin_ip", "raised", "get_ip", i)
                    ELSE Return(h, "unpin_ip", "ok", "", i)
    /\ UNCHANGED <<active, ssmKey, keyPairs, sgs, amis, snaps, ebs, nextId, keyFile, clock, sentinel>>

\* Lines 925-949.  out: "ok"; "notag"; or the call that raised.
UnpinIp(h, i, out) ==
    LET s == store[h]
        a == IF i \in DOMAIN s THEN s[i].eip ELSE 0
    IN
    /\ Begin(h)
    /\ (out # "ok") => a # 0
    /\ IF i \notin DOMAIN s
       THEN Return(h, "unpin_ip", "not_found", "", i) /\ UNCHANGED <<vm, eip, store>>
       ELSE IF a = 0
       THEN Return(h, "unpin_ip", "not_pinned", "", i) /\ UNCHANGED <<vm, eip, store>>
       ELSE IF out = "disassociate" \/ eip[a].st # "allocated"
       THEN Return(h, "unpin_ip", "raised", "disassociate", i) /\ UNCHANGED <<vm, eip, store>>
       ELSE LET v1 == Readdressed(vm, eip[a].inst)
                v2 == EipTagged(v1, i, 0, out # "notag")
                cleared == [s[i] EXCEPT !.eip = 0, !.eipIp = 0]
                seesIp == s[i].status \in {"running", "stopped"}
                ipFails == seesIp /\ (out = "get_ip" \/ vm[i].state = "gone")
                newIp == IF vm[i].state \in {"pending", "running", "stopping"}
                         THEN EphAddr(i, v1[i].gen) ELSE 0
            IN
            IF out = "release"
            THEN /\ eip' = [eip EXCEPT ![a].inst = 0]
                 /\ vm' = v1
                 /\ UNCHANGED store
                 /\ Return(h, "unpin_ip", "raised", "release", i)
            ELSE /\ eip' = Released(eip, a)
                 /\ vm' = v2
                 /\ store' = [store EXCEPT ![h] = Put(s, i,
                       IF seesIp /\ ~ipFails THEN [cleared EXCEPT !.ip = newIp] ELSE cleared)]
                 /\ IF ipFails THEN Return(h, "unpin_ip", "raised", "get_ip", i)
                    ELSE Return(h, "unpin_ip", "ok", "", i)
    /\ UNCHANGED <<active, ssmKey, keyPairs, sgs, amis, snaps, ebs, nextId, keyFile, clock, sentinel>>

(* -------------------------------------------------------------- destroy *)
\* _remove_active_region, lines 175-198: the region leaves the parameter when
\* no local record is left in it.
RegionRemoved(s, region) ==
    IF \E j \in DOMAIN s : s[j].region = region THEN active ELSE active \ {region}

\* Lines 662-694.  The outcome parameters of calls that are not made are TRUE.
\* eipOk: the best-effort disassociate and release both went
\* through; termOk = FALSE: terminate_instance raised something else than
\* InvalidInstanceID.NotFound; rmOk: _remove_active_region went through.
Destroy(h, i, rf, eipOk, termOk, rmOk) ==
    LET s1 == Refreshed(h, i, rf)
        a == IF i \in DOMAIN s1 THEN s1[i].eip ELSE 0
        e1 == IF a # 0 /\ eipOk /\ eip[a].st = "allocated" THEN Released(eip, a) ELSE eip
        v1 == IF e1 # eip THEN Readdressed(vm, eip[a].inst) ELSE vm
    IN
    /\ Begin(h)
    /\ RefreshCalls(h, i, rf)
    /\ (rf = "raised" \/ i \notin DOMAIN s1) => eipOk /\ termOk /\ rmOk
    /\ a = 0 => eipOk
    /\ ~termOk => rmOk
    /\ IF i \notin DOMAIN store[h]
       THEN Return(h, "destroy", "not_found", "", i) /\ UNCHANGED <<vm, eip, active, store>>
       ELSE IF rf = "raised"
       THEN Return(h, "destroy", "raised", "refresh", i) /\ UNCHANGED <<vm, eip, active, store>>
       ELSE IF i \notin DOMAIN s1
       THEN /\ store' = [store EXCEPT ![h] = s1]
            /\ Return(h, "destroy", "ok", "", i)
            /\ UNCHANGED <<vm, eip, active>>
       ELSE IF ~termOk
       THEN /\ store' = [store EXCEPT ![h] = s1]
            /\ eip' = e1
            /\ vm' = v1
            /\ UNCHANGED active
            /\ Return(h, "destroy", "raised", "terminate", i)
       ELSE /\ store' = [store EXCEPT ![h] = Drop(s1, i)]
            /\ eip' = Disassociated(e1, i)
            /\ vm' = [v1 EXCEPT ![i] = Terminated(v1[i])]
            /\ active' = IF rmOk THEN RegionRemoved(Drop(s1, i), s1[i].region) ELSE active
            /\ Return(h, "destroy", "ok", "", i)
    /\ UNCHANGED <<ssmKey, keyPairs, sgs, amis, snaps, ebs, nextId, keyFile, clock, sentinel>>

\* launch's opening with every input and every way its best-effort calls go.
LaunchBegin(h, regions, snapIds) ==
    \E given \in BOOLEAN, region \in regions, snap \in {0} \cup snapIds,
       overrides \in BOOLEAN, missing \in BOOLEAN, rec \in {"ok", "noactive", "raised"},
       seen \in SUBSET Regions :
       LaunchStart(h, given, region, snap, overrides, missing, rec, seen)

\* launch's later steps with every call failing or not.
LaunchSteps(h) ==
    \/ \E stage \in 1..6 : PrepStage(h, stage) = stage /\ LaunchPrep(h, stage)
    \/ \E readOk \in BOOLEAN : LaunchTrack(h, readOk)
    \/ \E putOk \in BOOLEAN : LaunchPut(h, putOk)
    \/ \E out \in {"ok", "wait", "get_ip"}, termOk \in BOOLEAN, deregOk \in BOOLEAN :
          LaunchWait(h, out, termOk, deregOk)
    \/ \E out \in {"ok", "notag", "ssh", "docker"}, termOk \in BOOLEAN, deregOk \in BOOLEAN :
          LaunchBoot(h, out, termOk, deregOk)
    \/ \E pin \in BOOLEAN, deregOk \in BOOLEAN : LaunchSave(h, pin, deregOk)
    \/ \E out \in {"allocate", "associate", "leak", "ok", "notag"}, deregOk \in BOOLEAN :
          LaunchPin(h, out, deregOk)

\* launch's later steps of a launch without pin_ip, where only the gateway
\* calls up to wait_for_instance_running may fail.
LaunchStepsPlain(h) ==
    \/ \E stage \in {1, 6} : LaunchPrep(h, stage)
    \/ \E readOk \in BOOLEAN : LaunchTrack(h, readOk)
    \/ \E putOk \in BOOLEAN : LaunchPut(h, putOk)
    \/ \E out \in {"ok", "wait"}, termOk \in BOOLEAN : LaunchWait(h, out, termOk, TRUE)
    \/ LaunchBoot(h, "ok", TRUE, TRUE)
    \/ LaunchSave(h, FALSE, TRUE)

\* pause, resume, stop_container, pin_ip and unpin_ip of server i called on
\* host h, with every way their calls go.
LifecycleBegin(h, i) ==
    \/ \E rf \in RefreshOuts, ctrOk \in BOOLEAN : PauseStart(h, i, rf, ctrOk)
    \/ \E rf \in RefreshOuts, out \in {"ok", "notag", "start", "raised"} : ResumeStart(h, i, rf, out)
    \/ \E rf \in RefreshOuts, out \in {"ok", "notag", "stop", "raised"} : StopContainer(h, i, rf, out)
    \/ \E out \in {"ok", "notag", "allocate", "associate", "leak"} : PinIp(h, i, out)
    \/ \E out \in {"ok", "notag", "disassociate", "release", "get_ip"} : UnpinIp(h, i, out)

\* The later steps of pause and resume.
LifecycleSteps(h) ==
    \/ \E apiOk \in BOOLEAN : PauseStop(h, apiOk)
    \/ \E waitOk \in BOOLEAN : PauseWait(h, waitOk)
    \/ \E apiOk \in BOOLEAN : ResumeStartInstance(h, apiOk)
    \/ \E out \in {"ok", "wait", "associate", "get_ip"} : ResumeWait(h, out)
    \/ \E out \in {"ok", "notag", "start", "raised"} : ResumeCtr(h, out)

\* The fleet: every host launches, reconciles and destroys, one operation at a
\* time, while instances boot and shut down.
Next ==
    \/ \E h \in Hosts : Alone(h) /\ LaunchBegin(h, Regions, {})
    \/ \E h \in Hosts : LaunchStepsPlain(h)
    \/ \E h \in Hosts, extra \in SUBSET Regions, activeOk \in BOOLEAN, listOk \in BOOLEAN :
          Alone(h) /\ Reconcile(h, extra, activeOk, listOk)
    \/ \E h \in Hosts, i \in Ids, rmOk \in BOOLEAN : Alone(h) /\ Destroy(h, i, "ok", TRUE, TRUE, rmOk)
    \/ \E i \in Ids : VmProgress(i)

Spec == Init /\ [][Next]_vars

\* One server's life: a single host takes LifeServers servers through every
\* operation.
LifeHost == "h1"
LifeIds == 1..LifeServers

\* Snapshots of servers destroyed earlier may exist, with or without a local
\* record of them.
InitLife ==
    /\ ebs \in SUBSET SnapIds
    /\ snaps \in [Hosts -> SUBSET ebs]
    /\ \A h \in Hosts \ {LifeHost} : snaps[h] = {}
    /\ InitOther

NextLife ==
    \/ nextId \in LifeIds /\ LaunchBegin(LifeHost, {DefaultRegion}, SnapIds)
    \/ LaunchSteps(LifeHost)
    \/ \E i \in LifeIds : LifecycleBegin(LifeHost, i)
    \/ LifecycleSteps(LifeHost)
    \/ \E activeOk \in BOOLEAN, listOk \in BOOLEAN : Reconcile(LifeHost, {}, activeOk, listOk)
    \/ \E i \in LifeIds, rf \in RefreshOuts, eipOk \in BOOLEAN, termOk \in BOOLEAN, rmOk \in BOOLEAN :
          Destroy(LifeHost, i, rf, eipOk, termOk, rmOk)
    \/ \E i \in LifeIds : VmProgress(i)
    \/ \E i \in LifeIds : VmPurge(i)

SpecLife == InitLife /\ [][NextLife]_vars

\* Peers: two hosts share the cloud account, each with its own store, and take
\* one server through launch, pause, resume, stop_container, reconcile and
\* destroy.  Their operations interleave call by call.
PeerBegin(h, i) ==
    \/ \E ctrOk \in BOOLEAN : PauseStart(h, i, "ok", ctrOk)
    \/ \E out \in {"ok", "raised"} : ResumeStart(h, i, "ok", out)
    \/ \E out \in {"ok", "raised"} : StopContainer(h, i, "ok", out)

PeerSteps(h) ==
    \/ \E apiOk \in BOOLEAN : PauseStop(h, apiOk)
    \/ \E waitOk \in BOOLEAN : PauseWait(h, waitOk)
    \/ \E apiOk \in BOOLEAN : ResumeStartInstance(h, apiOk)
    \/ \E out \in {"ok", "wait"} : ResumeWait(h, out)
    \/ \E out \in {"ok", "raised"} : ResumeCtr(h, out)

NextPeers ==
    \/ \E h \in Hosts : nextId \in LifeIds /\ LaunchBegin(h, {DefaultRegion}, {})
    \/ \E h \in Hosts : LaunchStepsPlain(h)
    \/ \E h \in Hosts, i \in LifeIds : PeerBegin(h, i)
    \/ \E h \in Hosts : PeerSteps(h)
    \/ \E h \in Hosts, listOk \in BOOLEAN : Reconcile(h, {DefaultRegion}, TRUE, listOk)
    \/ \E h \in Hosts, i \in LifeIds : Destroy(h, i, "ok", TRUE, TRUE, TRUE)
    \/ \E i \in LifeIds : VmProgress(i)
    \/ \E i \in LifeIds : VmPurge(i)

SpecPeers == Init /\ [][NextPeers]_vars

\* A shared store: a second process on the launching host's machine runs
\* reconcile on the same servers.json while the first launches and destroys.
\* The second process's reconcile is taken call by call, and each of its
\* ServerState calls as its _load followed by its _save_all (state.py 55-102);
\* the first process's store calls are atomic.
StoreHost == "h1"
SecondProcess == "h2"

\* The fields reconcile updates on a record it read as old and computed as new,
\* written into the record cur that the store call loaded (lines 1076-1102,
\* 1174-1185).
Merged(cur, old, new) ==
    [cur EXCEPT !.status = IF new.status # old.status THEN new.status ELSE cur.status,
                !.ip = IF new.ip # old.ip THEN new.ip ELSE cur.ip,
                !.eip = IF new.eip # old.eip THEN new.eip ELSE cur.eip,
                !.eipIp = IF new.eip # old.eip \/ new.eipIp # old.eipIp THEN new.eipIp ELSE cur.eipIp,
                !.cn = IF new.cn # old.cn THEN new.cn ELSE cur.cn]

\* The file a store call of reconcile writes for server i, from the file it
\* loaded: delete, update_status / update_field (no-ops when the id is not in
\* the loaded file), or save of the adopted record.
Written(file, i, recs, plan) ==
    IF i \in DOMAIN recs
    THEN IF i \in DOMAIN plan
         THEN UpdateIn(file, i, IF i \in DOMAIN file THEN Merged(file[i], recs[i], plan[i]) ELSE << >>)
         ELSE Drop(file, i)
    ELSE Put(file, i, plan[i])

\* Lines 1038-1052: the local records and the regions to scan.
RcRead(p, activeOk) ==
    /\ Begin(p)
    /\ pc' = [pc EXCEPT ![p] = "rc_list"]
    /\ ctx' = [ctx EXCEPT ![p] = [id |-> 0, recs |-> store[StoreHost],
                                   scan |-> ScanRegions(store[StoreHost], {}, activeOk),
                                   plan |-> << >>, todo |-> {}, file |-> << >>]]
    /\ ev' = NoEvent
    /\ UNCHANGED <<cloudVars, store, snaps, nextId, keyFile, clock, sentinel>>

\* Lines 1054-1065: the instances and elastic IPs of the scanned regions, and
\* with them what lines 1067-1139 and 1174-1185 will write: nothing for a
\* record that is up to date.  listOk = FALSE: a listing call raised.
RcList(p, listOk) ==
    LET c == ctx[p]
        plan == ReconciledStore(c.recs, c.scan)
    IN
    /\ pc[p] = "rc_list"
    /\ IF listOk
       THEN /\ pc' = [pc EXCEPT ![p] = "rc_apply"]
            /\ ctx' = [ctx EXCEPT ![p] = [c EXCEPT !.plan = plan,
                           !.todo = {i \in DOMAIN c.recs \cup DOMAIN plan :
                                        i \in DOMAIN c.recs /\ i \in DOMAIN plan => plan[i] # c.recs[i]}]]
            /\ ev' = NoEvent
       ELSE Return(p, "reconcile", "raised", "list", 0)
    /\ UNCHANGED <<cloudVars, store, snaps, nextId, keyFile, clock, sentinel>>

\* The _load of the next store call: the local records are gone through first
\* (lines 1068-1105), the adoptions after them (lines 1107-1139).
RcLoad(p, i) ==
    LET c == ctx[p]
        first == c.todo \cap DOMAIN c.recs
    IN
    /\ pc[p] = "rc_apply"
    /\ i \in (IF first # {} THEN first ELSE c.todo)
    /\ pc' = [pc EXCEPT ![p] = "rc_save"]
    /\ ctx' = [ctx EXCEPT ![p] = [c EXCEPT !.id = i, !.file = store[StoreHost]]]
    /\ ev' = NoEvent
    /\ UNCHANGED <<cloudVars, store, snaps, nextId, keyFile, clock, sentinel>>

\* The _save_all of that store call.
RcSave(p) ==
    LET c == ctx[p] IN
    /\ pc[p] = "rc_save"
    /\ store' = [store EXCEPT ![StoreHost] = Written(c.file, c.id, c.recs, c.plan)]
    /\ pc' = [pc EXCEPT ![p] = "rc_apply"]
    /\ ctx' = [ctx EXCEPT ![p] = [c EXCEPT !.id = 0, !.todo = c.todo \ {c.id}, !.file = << >>]]
    /\ ev' = NoEvent
    /\ UNCHANGED <<cloudVars, snaps, nextId, keyFile, clock, sentinel>>

\* Lines 1141-1193: the snapshot records, and reconcile returns.
RcDone(p) ==
    /\ pc[p] = "rc_apply"
    /\ ctx[p].todo = {}
    /\ snaps' = [snaps EXCEPT ![StoreHost] = ReconciledSnaps(snaps[StoreHost], ctx[p].scan)]
    /\ pc' = [pc EXCEPT ![p] = "idle"]
    /\ ctx' = [ctx EXCEPT ![p] = IdleCtx]
    /\ ev' = [Event(p, "reconcile", "ok", "", 0) EXCEPT !.scan = ctx[p].scan]
    /\ UNCHANGED <<cloudVars, store, nextId, keyFile, clock, sentinel>>

NextShared ==
    \/ nextId \in Ids /\ LaunchBegin(StoreHost, {DefaultRegion}, {})
    \/ LaunchStepsPlain(StoreHost)
    \/ \E i \in Ids, rmOk \in BOOLEAN : Destroy(StoreHost, i, "ok", TRUE, TRUE, rmOk)
    \/ \E activeOk \in BOOLEAN : RcRead(SecondProcess, activeOk)
    \/ \E listOk \in BOOLEAN : RcList(SecondProcess, listOk)
    \/ \E i \in Ids : RcLoad(SecondProcess, i)
    \/ RcSave(SecondProcess)
    \/ RcDone(SecondProcess)
    \/ \E i \in Ids : VmProgress(i)
    \/ \E i \in Ids : VmPurge(i)

SpecShared == Init /\ [][NextShared]_vars

(* ------------------------------------------------------------ properties *)
AllIdle == \A h \in Hosts : Idle(h)

Records == {<<h, i>> \in Hosts \X Ids : i \in DOMAIN store[h]}

\* C1: names are unique within every host's store and among the live tagged
\* instances, whatever operations one or more hosts have run.
C1_NamesUnique ==
    /\ \A h \in Hosts : \A i, j \in DOMAIN store[h] :
          i # j => store[h][i].name # store[h][j].name
    /\ \A i, j \in Ids : (i # j /\ Live(i) /\ Live(j)) => vm[i].name # vm[j].name

\* C2: launch is atomic.  When it returns, the new id has a record and an
\* instance; when it raises from the cleanup handler and terminate went
\* through, the record is gone and the instance is shutting down; when
\* terminate failed, the record is still there with status "launching" and the
\* error raised is the one that started the cleanup.
C2_LaunchAtomic ==
    ev.op = "launch" =>
        /\ ev.out = "ok" => ev.id \in DOMAIN store[ev.h] /\ Live(ev.id)
        /\ ev.out = "raised_cleaned" =>
              ev.id \notin DOMAIN store[ev.h] /\ vm[ev.id].state = "terminated"
        /\ ev.out = "raised_kept" =>
              /\ ev.id \in DOMAIN store[ev.h]
              /\ store[ev.h][ev.id].status = "launching"
              /\ Live(ev.id)
              /\ ev.err \in {"wait", "get_ip", "ssh", "docker"}

C2_Witness ==
    /\ ev.op = "launch" /\ ev.out = "raised_kept" /\ ev.err = "docker"
    /\ vm[ev.id].state = "running"
    /\ store[ev.h][ev.id].status = "launching"

\* C3: whenever launch raises after its first save, its cleanup ran: terminate
\* was attempted (and the record is gone or kept as "launching").
C3_CleanupOnEveryError ==
    (ev.op = "launch" /\ ev.out \in {"raised", "raised_cleaned", "raised_kept"}
        /\ vm[ev.id].state # "none")
    => ev.out \in {"raised_cleaned", "raised_kept"}

\* C4: while a launch runs, the first record it saves has status "launching"
\* and is saved after run_instance and before the wait; "running" is written
\* only by the save that follows the container start; and from the first save
\* on, up to the cleanup, the record is in the store.
C4_LaunchSaves ==
    [][\A h \in Hosts :
         LET i == ctx[h].id
             had == i \in DOMAIN store[h]
             has == i \in DOMAIN store'[h]
         IN /\ pc[h] \in {"l_prep", "l_track", "l_put", "l_wait", "l_boot", "l_save", "l_pin"} =>
                 /\ (~had /\ has) =>
                       /\ store'[h][i].status = "launching"
                       /\ vm[i].state # "none"
                       /\ vm'[i].ctr # "running"
                       /\ pc'[h] = "l_wait"
                 /\ (has /\ store'[h][i].status = "running"
                         /\ (had => store[h][i].status # "running")) =>
                       pc[h] = "l_save" /\ had /\ vm[i].ctr = "running"
            /\ pc'[h] \in {"l_wait", "l_boot", "l_save", "l_pin"} =>
                 ctx'[h].id \in DOMAIN store'[h]
      ]_vars

C4_Witness ==
    \E h \in Hosts :
        /\ pc[h] = "l_save"
        /\ store[h][ctx[h].id].status = "launching"
        /\ vm[ctx[h].id].ctr = "running"

\* C5: a launch whose name is in the local store, or on a live instance of the
\* launch region or of an active region, raises "already exists": no instance
\* is run and nothing is saved beyond what the leading reconcile wrote; a launch
\* that goes on has a name no local record carries and, when the cloud name
\* check ran to its end, no listed instance either.
C5_DuplicateNameRejected ==
    [][\A h \in Hosts :
         /\ (ev'.h = h /\ ev'.op = "launch" /\ ev'.out = "already_exists") =>
               /\ UNCHANGED <<cloudVars, nextId, keyFile, clock, sentinel>>
               /\ \/ store'[h] = store[h]
                  \/ \E a \in BOOLEAN :
                        store'[h] = ReconciledStore(store[h], ScanRegions(store[h], {}, a))
         /\ (pc[h] = "idle" /\ pc'[h] = "l_prep") =>
               /\ ~name_exists(store'[h], ctx'[h].name)
               /\ ctx'[h].checked =>
                     \A r \in active \cup {ctx'[h].region} :
                        \A i \in find_gsm_instances(r) : vm[i].name # ctx'[h].name
      ]_vars

C5_Witness ==
    /\ ev.op = "launch" /\ ev.out = "already_exists"
    /\ ~name_exists(store[ev.h], "alpha")
    /\ \E i \in Ids : Live(i) /\ vm[i].name = "alpha"

\* C6: a launch rejected for its input (duplicate name, from_snapshot with
\* overrides, a missing required key, a from_snapshot id without a snapshot
\* record) has had no effect on the cloud.
C6_RejectedBeforeSideEffects ==
    [][(ev'.op = "launch"
          /\ \/ ev'.out \in {"already_exists", "bad_args", "missing_config"}
             \/ ev'.err = "snapshot_not_found")
       => UNCHANGED <<cloudVars, keyFile, clock, sentinel>>]_vars

\* C7: a record with an elastic-IP allocation id and a status other than
\* "paused" has public_ip equal to eip_public_ip.
C7_PinnedAddress ==
    \A <<h, i>> \in Records :
        (store[h][i].eip # 0 /\ store[h][i].status # "paused")
            => store[h][i].ip = store[h][i].eipIp

\* C8: between operations, a record with status "running" has an instance in
\* state running whose primary container has been started.
C8_RunningMeansServing ==
    AllIdle =>
        \A <<h, i>> \in Records :
            store[h][i].status = "running"
                => vm[i].state = "running" /\ vm[i].ctr = "running"

\* C9: after a resume that raised once start_instance had returned, a record
\* with status "paused" has an instance that is stopping or stopped.
C9_PausedAfterFailedResume ==
    (ev.op = "resume" /\ ev.out = "raised" /\ ev.err \in {"wait", "associate", "get_ip"}
        /\ ev.id \in DOMAIN store[ev.h] /\ store[ev.h][ev.id].status = "paused")
    => vm[ev.id].state \in {"stopping", "stopped"}

\* C10: when reconcile has completed, the ids of the local records are the
\* gsm:id tags of the instances of the scanned regions that are neither
\* terminated nor shutting down.
C10_ReconcileMatchesCloud ==
    (ev.op = "reconcile" /\ ev.out = "ok")
        => DOMAIN store[ev.h] = UnionOver(ev.scan, find_gsm_instances)

C10_Witness ==
    /\ ev.op = "reconcile" /\ ev.out = "ok"
    /\ \E i \in DOMAIN store[ev.h] : \E j \in Ids \ DOMAIN store[ev.h] :
          /\ vm[j].state = "terminated" /\ vm[j].region \in ev.scan
          /\ \E g \in Hosts \ {ev.h} : i \notin DOMAIN store[g] /\ j \in DOMAIN store[g]

\* C11: reconcile is idempotent: with the cloud and the active-regions set
\* unchanged and the same arguments, a second reconcile leaves the server and
\* snapshot records as the first one left them.
C11_ReconcileIdempotent ==
    \A h \in Hosts, extra \in SUBSET Regions, activeOk \in BOOLEAN :
        LET first == ReconcileOnce(store[h], snaps[h], extra, activeOk)
            second == ReconcileOnce(first.servers, first.snapshots, extra, activeOk)
        IN second = first

\* C14: pause saves status "paused" in the step in which stop_instance returns,
\* before the wait for the instance to stop; whether the wait returns or raises,
\* pause then returns with the record "paused".
C14_PausedBeforeWait ==
    [][\A h \in Hosts :
         LET i == ctx[h].id IN
         /\ (pc[h] = "p_stop" /\ pc'[h] = "p_wait") =>
               /\ i \in DOMAIN store'[h]
               /\ store'[h][i].status = "paused"
               /\ vm'[i].state \in {"stopping", "stopped"}
         /\ (pc[h] = "p_wait" /\ pc'[h] # "p_wait") =>
               /\ ev' = Event(h, "pause", "ok", "", i)
               /\ i \in DOMAIN store'[h]
               /\ store'[h][i].status = "paused"
      ]_vars

C14_Witness ==
    /\ ev.op = "pause" /\ ev.out = "ok"
    /\ vm[ev.id].state = "stopping"
    /\ ev.id \in DOMAIN store[ev.h]
    /\ store[ev.h][ev.id].status = "paused"

GuardOuts == {"already_paused", "not_paused", "not_running", "already_pinned", "not_pinned"}

C20_GuardsRejectCleanly ==
    [][\A h \in Hosts :
         (pc[h] = "idle" /\ ev'.h = h /\ ev'.out \in GuardOuts) =>
            LET i == ev'.id IN
            /\ UNCHANGED <<cloudVars, keyFile, clock, sentinel>>
            /\ pc'[h] = "idle"
            /\ i \in DOMAIN store'[h]
            /\ CASE ev'.out = "already_paused" ->
                      ev'.op = "pause" /\ store'[h][i].status = "paused"
                 [] ev'.out = "not_paused" ->
                      ev'.op = "resume" /\ store'[h][i].status \notin {"paused", "stopped"}
                 [] ev'.out = "not_running" ->
                      ev'.op = "stop_container" /\ store'[h][i].status # "running"
                 [] ev'.out = "already_pinned" ->
                      ev'.op = "pin_ip" /\ store'[h][i].eip # 0
                 [] OTHER ->
                      ev'.op = "unpin_ip" /\ store'[h][i].eip = 0
            /\ IF ev'.op \in {"pin_ip", "unpin_ip"}
               THEN store'[h] = store[h]
               ELSE \E eipsOk \in BOOLEAN : store'[h] = RefreshedStore(store[h], i, eipsOk)
      ]_vars

\* stop_container refused on a paused server.
C20_Witness ==
    /\ ev.out = "not_running" /\ ev.op = "stop_container"
    /\ store[ev.h][ev.id].status = "paused"
    /\ vm[ev.id].state = "stopped"
\* C18: resume on a "stopped" record whose instance runs.  The instance is
\* not started (its state does not change).  When resume returns, the container
\* runs, the status is "running" and container_name is the name of the
\* container on the instance: the refreshed record's name when that names the
\* container, the discovered one otherwise.  When resume raises, the status is
\* still "stopped".
ResumesStopped(h) ==
    /\ pc[h] = "idle" /\ ev'.h = h /\ ev'.op = "resume"
    /\ ev'.id \in DOMAIN store[h]
    /\ store[h][ev'.id].status = "stopped"
    /\ vm[ev'.id].state = "running"

C18_ResumeStopped ==
    [][\A h \in Hosts :
         ResumesStopped(h) =>
            LET i == ev'.id IN
            /\ pc'[h] = "idle"
            /\ vm'[i].state = vm[i].state
            /\ vm'[i].cname = vm[i].cname
            /\ ev'.out \in {"ok", "raised"}
            /\ i \in DOMAIN store'[h]
            /\ ev'.out = "ok" =>
                  /\ vm'[i].ctr = "running"
                  /\ store'[h][i].status = "running"
                  /\ store'[h][i].cn = vm[i].cname
            /\ ev'.out = "raised" =>
                  /\ store'[h][i].status = "stopped"
                  /\ vm'[i].ctr = vm[i].ctr
      ]_vars

\* A stopped container started again by resume.
C18_Witness ==
    /\ ev.op = "resume" /\ ev.out = "ok"
    /\ ev.id \in DOMAIN store[ev.h]
    /\ store[ev.h][ev.id].status = "running"
    /\ store[ev.h][ev.id].cn = vm[ev.id].cname
    /\ vm[ev.id].ctr = "running"
    /\ vm[ev.id].state = "running"
    /\ ~vm[ev.id].tagCS

\* C18 as stated: stop_container followed by resume leaves container_name as it
\* was before stop_container, each of the two calls leaving it as it found it.
C18_NameKept ==
    [][\A h \in Hosts :
         (/\ pc[h] = "idle" /\ ev'.h = h /\ ev'.out = "ok"
          /\ ev'.op \in {"stop_container", "resume"}
          /\ ev'.id \in DOMAIN store[h]) =>
            store'[h][ev'.id].cn = store[h][ev'.id].cn
      ]_vars

\* C12: when no host is inside an operation and no instance is booting or
\* shutting down, a reconcile leaves each of the host's records with the status
\* that the instance's state and container-stopped tag imply, and with the
\* elastic IP and container name of its tags.
ImpliedStatus(i) == AdoptRecord(i, {}).status

C12_ReconcileConverges ==
    [][\A h \in Hosts :
         (/\ ev'.h = h /\ ev'.op = "reconcile" /\ ev'.out = "ok"
          /\ \A g \in Hosts : Idle(g)
          /\ \A i \in Ids : vm[i].state \notin {"pending", "stopping"}) =>
            \A i \in DOMAIN store'[h] :
               /\ store'[h][i].status = ImpliedStatus(i)
               /\ store'[h][i].eip = vm[i].tagEip
               /\ vm[i].tagCn # 0 => store'[h][i].cn = vm[i].tagCn
      ]_vars

\* C16: pause called on a server whose instance is stopped while the local
\* record does not say "paused" yet returns without raising and leaves the
\* record "paused".
C16_PauseOnStoppedVm ==
    [][\A h \in Hosts :
         (/\ pc[h] = "idle" /\ ev'.h = h /\ ev'.op = "pause"
          /\ ev'.id \in DOMAIN store[h]
          /\ store[h][ev'.id].status # "paused"
          /\ vm[ev'.id].state = "stopped") =>
            /\ ev'.out = "ok"
            /\ ev'.id \in DOMAIN store'[h]
            /\ store'[h][ev'.id].status = "paused"
      ]_vars

\* C19: the stop call of pause and the start call of resume.  When the call is
\* answered InvalidInstanceID.NotFound the record is deleted and the operation
\* raises "terminated externally"; when pause's stop call is answered
\* IncorrectInstanceState pause returns with the record "paused"; any other
\* error propagates and leaves the store as it was.
C19_StopStartErrors ==
    [][\A h \in Hosts :
         LET i == ctx[h].id IN
         /\ (pc[h] = "p_stop" /\ pc'[h] = "idle") =>
               /\ ev'.op = "pause"
               /\ ev'.out \in {"terminated_externally", "ok", "raised"}
               /\ ev'.out = "terminated_externally" <=> vm[i].state = "gone" /\ ev'.out # "raised"
               /\ ev'.out = "terminated_externally" => i \notin DOMAIN store'[h]
               /\ ev'.out = "ok" =>
                     /\ StopAnswer(i) = "incorrect_state"
                     /\ i \in DOMAIN store[h] => store'[h][i].status = "paused"
               /\ ev'.out = "raised" => ev'.err = "stop" /\ store'[h] = store[h]
         /\ (pc[h] = "r_start" /\ pc'[h] = "idle") =>
               /\ ev'.op = "resume"
               /\ ev'.out \in {"terminated_externally", "raised"}
               /\ ev'.out = "terminated_externally" => vm[i].state = "gone" /\ i \notin DOMAIN store'[h]
               /\ ev'.out = "raised" => ev'.err = "start" /\ store'[h] = store[h]
      ]_vars

\* The instance vanished between the refresh and the stop or start call.
C19_Witness ==
    /\ ev.out = "terminated_externally"
    /\ ev.op \in {"pause", "resume"}
    /\ ev.id \notin DOMAIN store[ev.h]
    /\ vm[ev.id].state = "gone"

\* C19 as stated: whenever the stop call of pause or the start call of resume
\* is answered with an error other than InvalidInstanceID.NotFound, the
\* operation raises and the record stays.
C19_OtherErrorsPropagate ==
    [][\A h \in Hosts :
         LET i == ctx[h].id IN
         /\ (pc[h] = "p_stop" /\ pc'[h] = "idle" /\ vm[i].state # "gone") =>
               ev'.out = "raised" /\ store'[h] = store[h]
         /\ (pc[h] = "r_start" /\ pc'[h] = "idle" /\ vm[i].state # "gone") =>
               ev'.out = "raised" /\ store'[h] = store[h]
      ]_vars

\* C13: while a launch is between its initial save and its final save and its
\* instance is pending or running, no step of a concurrent reconcile of the
\* second process removes the launch's record from the store or changes the
\* instance's state.
LaunchWindow(h) == pc[h] \in {"l_wait", "l_boot", "l_save"}

C13_ReconcileSparesLaunch ==
    [][LET h == StoreHost
           p == SecondProcess
           i == ctx[h].id
       IN (/\ LaunchWindow(h)
           /\ i \in DOMAIN store[h]
           /\ vm[i].state \in {"pending", "running"}
           /\ <<pc[p], ctx[p]>>' # <<pc[p], ctx[p]>>) =>
             /\ i \in DOMAIN store'[h]
             /\ vm' = vm
      ]_vars

(* ------------------------------------------- destroy, call by call *)
\* The position of a destroy between its calls: the record it works on, the
\* records destroy_all listed, those still to destroy and those whose destroy
\* raised; all is FALSE for a destroy called on its own.
DestroyCtx(i, region, listed, todo, failed, all) ==
    [id |-> i, region |-> region, listed |-> listed, todo |-> todo, failed |-> failed, all |-> all]

\* A destroy ends: on its own it returns or raises to the caller; inside
\* destroy_all the exception is caught, noted, and the loop goes on.
DestroyEnds(h, i, out, err, listed, todo, failed, all) ==
    IF all
    THEN /\ pc' = [pc EXCEPT ![h] = "da_loop"]
         /\ ctx' = [ctx EXCEPT ![h] = DestroyCtx(0, "", listed, todo \ {i},
                                                 IF out = "ok" THEN failed ELSE failed \cup {i}, TRUE)]
         /\ ev' = Event(h, "destroy", out, err, i)
    ELSE Return(h, "destroy", out, err, i)

\* Lines 662-680: the record is looked up and refreshed; a record whose
\* instance is gone is deleted by the refresh and destroy returns; otherwise
\* the elastic IP is released, best effort.
DestroyStart(h, i, rf, eipOk) ==
    LET all == pc[h] = "da_loop"
        listed == IF all THEN ctx[h].listed ELSE {}
        todo == IF all THEN ctx[h].todo ELSE {}
        failed == IF all THEN ctx[h].failed ELSE {}
        s1 == Refreshed(h, i, rf)
        a == IF i \in DOMAIN s1 THEN s1[i].eip ELSE 0
        e1 == IF a # 0 /\ eipOk /\ eip[a].st = "allocated" THEN Released(eip, a) ELSE eip
        v1 == IF e1 # eip THEN Readdressed(vm, eip[a].inst) ELSE vm
    IN
    /\ Begin(h) \/ (all /\ i \in todo)
    /\ RefreshCalls(h, i, rf)
    /\ (rf = "raised" \/ i \notin DOMAIN s1) => eipOk
    /\ a = 0 => eipOk
    /\ IF i \notin DOMAIN store[h]
       THEN /\ DestroyEnds(h, i, "not_found", "", listed, todo, failed, all)
            /\ UNCHANGED <<vm, eip, store>>
       ELSE IF rf = "raised"
       THEN /\ DestroyEnds(h, i, "raised", "refresh", listed, todo, failed, all)
            /\ UNCHANGED <<vm, eip, store>>
       ELSE IF i \notin DOMAIN s1
       THEN /\ store' = [store EXCEPT ![h] = s1]
            /\ DestroyEnds(h, i, "ok", "", listed, todo, failed, all)
            /\ UNCHANGED <<vm, eip>>
       ELSE /\ store' = [store EXCEPT ![h] = s1]
            /\ eip' = e1
            /\ vm' = v1
            /\ Goto(h, "d_term", DestroyCtx(i, s1[i].region, listed, todo, failed, all))
    /\ UNCHANGED <<active, ssmKey, keyPairs, sgs, amis, snaps, ebs, nextId, keyFile, clock, sentinel>>

\* A destroy that keeps the record when the terminate call answers NotFound.
DestroyTerminateKeepsGone(h, termOk, rmOk) ==
    LET c == ctx[h]
        i == c.id
        s2 == IF vm[i].state = "gone" THEN store[h] ELSE Drop(store[h], i)
    IN
    /\ pc[h] = "d_term"
    /\ ~termOk => rmOk
    /\ IF ~termOk
       THEN /\ DestroyEnds(h, i, "raised", "terminate", c.listed, c.todo, c.failed, c.all)
            /\ UNCHANGED <<vm, eip, active, store>>
       ELSE /\ vm' = [vm EXCEPT ![i] = Terminated(vm[i])]
            /\ eip' = Disassociated(eip, i)
            /\ store' = [store EXCEPT ![h] = s2]
            /\ active' = IF rmOk THEN RegionRemoved(s2, c.region) ELSE active
            /\ DestroyEnds(h, i, "ok", "", c.listed, c.todo, c.failed, c.all)
    /\ UNCHANGED <<ssmKey, keyPairs, sgs, amis, snaps, ebs, nextId, keyFile, clock, sentinel>>

\* Lines 682-694: terminate_instance, where NotFound counts as done and any
\* other error propagates; then the record is deleted and the region is
\* dropped from the active set, best effort.
DestroyTerminate(h, termOk, rmOk) ==
    LET c == ctx[h]
        i == c.id
        s2 == Drop(store[h], i)
    IN
    /\ pc[h] = "d_term"
    /\ ~termOk => rmOk
    /\ IF ~termOk
       THEN /\ DestroyEnds(h, i, "raised", "terminate", c.listed, c.todo, c.failed, c.all)
            /\ UNCHANGED <<vm, eip, active, store>>
       ELSE /\ vm' = [vm EXCEPT ![i] = Terminated(vm[i])]
            /\ eip' = Disassociated(eip, i)
            /\ store' = [store EXCEPT ![h] = s2]
            /\ active' = IF rmOk THEN RegionRemoved(s2, c.region) ELSE active
            /\ DestroyEnds(h, i, "ok", "", c.listed, c.todo, c.failed, c.all)
    /\ UNCHANGED <<ssmKey, keyPairs, sgs, amis, snaps, ebs, nextId, keyFile, clock, sentinel>>

(* ------------------------------------------------------------ destroy_all *)
\* Lines 696-701: reconcile, any exception swallowed, then list_all.
DestroyAllStart(h, recOk, activeOk) ==
    LET r == ReconcileOnce(store[h], snaps[h], {}, activeOk)
        s1 == IF recOk THEN r.servers ELSE store[h]
    IN
    /\ Begin(h)
    /\ ~recOk => activeOk
    /\ store' = [store EXCEPT ![h] = s1]
    /\ snaps' = [snaps EXCEPT ![h] = IF recOk THEN r.snapshots ELSE snaps[h]]
    /\ Goto(h, "da_loop", DestroyCtx(0, "", DOMAIN s1, DOMAIN s1, {}, TRUE))
    /\ UNCHANGED <<cloudVars, nextId, keyFile, clock, sentinel>>

\* A destroy_all that gives up at the first destroy that raised.
DestroyAllDoneEarly(h) ==
    /\ pc[h] = "da_loop"
    /\ ctx[h].todo = {} \/ ctx[h].failed # {}
    /\ Return(h, "destroy_all", IF ctx[h].failed = {} THEN "ok" ELSE "raised", "", 0)
    /\ UNCHANGED <<cloudVars, store, snaps, nextId, keyFile, clock, sentinel>>

\* Lines 702-709: after the last record, one RuntimeError that sums up the
\* destroys that raised, or a plain return.
DestroyAllDone(h) ==
    /\ pc[h] = "da_loop"
    /\ ctx[h].todo = {}
    /\ Return(h, "destroy_all", IF ctx[h].failed = {} THEN "ok" ELSE "raised", "", 0)
    /\ UNCHANGED <<cloudVars, store, snaps, nextId, keyFile, clock, sentinel>>

\* Two machines, two servers. The first machine launches, and runs destroy_all;
\* both reconcile and destroy. Launches and reconciles run one at a time,
\* destroy and destroy_all are interleaved call by call with each other and
\* with the cloud's own progress.
DestroyAllHost == "h1"

NextDestroy ==
    \/ Alone(DestroyAllHost) /\ LaunchBegin(DestroyAllHost, {DefaultRegion}, {})
    \/ LaunchStepsPlain(DestroyAllHost)
    \/ \E h \in Hosts : Alone(h) /\ Reconcile(h, {}, TRUE, TRUE)
    \/ \E h \in Hosts, i \in Ids, rf \in RefreshOuts, eipOk \in BOOLEAN : DestroyStart(h, i, rf, eipOk)
    \/ \E h \in Hosts, termOk, rmOk \in BOOLEAN : DestroyTerminate(h, termOk, rmOk)
    \/ \E recOk, activeOk \in BOOLEAN : DestroyAllStart(DestroyAllHost, recOk, activeOk)
    \/ DestroyAllDone(DestroyAllHost)
    \/ \E i \in Ids : VmProgress(i)
    \/ \E i \in Ids : VmPurge(i)

SpecDestroy == Init /\ [][NextDestroy]_vars

(* -------------------------------------------------- the shared SSH key *)
\* A specification of its own for ensure_key_pair (ssh.py 99-197), call by
\* call on every host.  Here ssmKey is the value of the parameter
\* /gsmc/ssh-private-key (0: no such parameter) and keyPairs the key the
\* region's key pair gsm-key was imported from (0: no key pair); a key stands
\* for its private key, its public key and its fingerprint alike.
HostNo(h) == IF h = "h1" THEN 1 ELSE 2

\* The key a host has from before the parameter store was used, the key an
\* earlier machine stored, and the key RSAKey.generate gives a host.
OldKey(h) == HostNo(h)
SharedKey == 9
NewKey(h) == 10 + HostNo(h)

InitKeys ==
    /\ keyFile \in [Hosts -> {0, 1, 2}]
    /\ \A h \in Hosts : keyFile[h] \in {0, OldKey(h)}
    /\ clock = 0
    /\ sentinel = [h \in Hosts |-> NoSentinel]
    /\ ssmKey \in {0, SharedKey}
    /\ keyPairs \in {0, SharedKey}
    /\ vm = [i \in Ids |-> NoVm]
    /\ eip = [a \in EipIds |-> NoEip]
    /\ active = {}
    /\ sgs = {}
    /\ amis = {}
    /\ ebs = {}
    /\ store = [h \in Hosts |-> << >>]
    /\ snaps = [h \in Hosts |-> {}]
    /\ pc = [h \in Hosts |-> "idle"]
    /\ ctx = [h \in Hosts |-> IdleCtx]
    /\ ev = NoEvent
    /\ nextId = 1

KeyFrame == UNCHANGED <<vm, eip, active, sgs, amis, ebs, store, snaps, nextId, clock, sentinel>>

KeyGoto(h, label) == pc' = [pc EXCEPT ![h] = label] /\ ev' = NoEvent /\ UNCHANGED ctx

KeyReturn(h, out, err) == pc' = [pc EXCEPT ![h] = "idle"] /\ ev' = Event(h, "ensure_key_pair", out, err, 0) /\ UNCHANGED ctx

\* _fetch_key_from_ssm, lines 99-113: the parameter's value replaces the key
\* file; FALSE when there is no parameter.
Fetched(h) == IF ssmKey # 0 THEN [keyFile EXCEPT ![h] = ssmKey] ELSE keyFile

\* Lines 151-168: the first fetch; without a parameter the local key is kept,
\* or a new key is generated and written.
KeyFetch(h, ok) ==
    /\ pc[h] = "idle"
    /\ KeyFrame /\ UNCHANGED <<ssmKey, keyPairs>>
    /\ IF ~ok
       THEN KeyReturn(h, "raised", "fetch") /\ UNCHANGED keyFile
       ELSE IF ssmKey # 0
       THEN keyFile' = Fetched(h) /\ KeyGoto(h, "k_pair")
       ELSE /\ keyFile' = [keyFile EXCEPT ![h] = IF keyFile[h] # 0 THEN keyFile[h] ELSE NewKey(h)]
            /\ KeyGoto(h, "k_store")

\* A put_parameter that overwrites.
KeyStoreOverwrites(h, ok) ==
    /\ pc[h] = "k_store"
    /\ KeyFrame /\ UNCHANGED <<keyFile, keyPairs>>
    /\ IF ~ok
       THEN KeyReturn(h, "raised", "store") /\ UNCHANGED ssmKey
       ELSE ssmKey' = keyFile[h] /\ KeyGoto(h, "k_pair")

\* _store_key_in_ssm, lines 116-132, called at 157 and 169: put_parameter
\* without Overwrite; ParameterAlreadyExists sends the host to fetch again.
KeyStore(h, ok) ==
    /\ pc[h] = "k_store"
    /\ KeyFrame /\ UNCHANGED <<keyFile, keyPairs>>
    /\ IF ~ok
       THEN KeyReturn(h, "raised", "store") /\ UNCHANGED ssmKey
       ELSE IF ssmKey = 0
       THEN ssmKey' = keyFile[h] /\ KeyGoto(h, "k_pair")
       ELSE UNCHANGED ssmKey /\ KeyGoto(h, "k_refetch")

\* Lines 162 and 174: the second fetch, after another machine stored first.
KeyRefetch(h, ok) ==
    /\ pc[h] = "k_refetch"
    /\ KeyFrame /\ UNCHANGED <<ssmKey, keyPairs>>
    /\ IF ~ok
       THEN KeyReturn(h, "raised", "fetch") /\ UNCHANGED keyFile
       ELSE keyFile' = Fetched(h) /\ KeyGoto(h, "k_pair")

\* Lines 176-193: describe_key_pairs; a matching fingerprint ends the call.
KeyDescribe(h, ok) ==
    /\ pc[h] = "k_pair"
    /\ KeyFrame /\ UNCHANGED <<ssmKey, keyPairs, keyFile, clock, sentinel>>
    /\ IF ~ok THEN KeyReturn(h, "raised", "describe")
       ELSE IF keyPairs = 0 THEN KeyGoto(h, "k_import")
       ELSE IF keyPairs = keyFile[h] THEN KeyReturn(h, "ok", "")
       ELSE KeyGoto(h, "k_delete")

\* Line 188: delete_key_pair, which also succeeds when the key pair is gone.
KeyDelete(h, ok) ==
    /\ pc[h] = "k_delete"
    /\ KeyFrame /\ UNCHANGED <<ssmKey, keyFile, clock, sentinel>>
    /\ IF ~ok THEN KeyReturn(h, "raised", "delete") /\ UNCHANGED keyPairs
       ELSE keyPairs' = 0 /\ KeyGoto(h, "k_import")

\* Line 194: import_key_pair, which raises InvalidKeyPair.Duplicate when a
\* peer imported in between.
KeyImport(h, ok) ==
    /\ pc[h] = "k_import"
    /\ KeyFrame /\ UNCHANGED <<ssmKey, keyFile, clock, sentinel>>
    /\ IF ~ok \/ keyPairs # 0
       THEN ok /\ KeyReturn(h, "raised", "import") /\ UNCHANGED keyPairs
       ELSE keyPairs' = keyFile[h] /\ KeyReturn(h, "ok", "")

NextKeys ==
    \/ \E h \in Hosts, ok \in BOOLEAN : KeyFetch(h, ok)
    \/ \E h \in Hosts, ok \in BOOLEAN : KeyStore(h, ok)
    \/ \E h \in Hosts, ok \in BOOLEAN : KeyRefetch(h, ok)
    \/ \E h \in Hosts, ok \in BOOLEAN : KeyDescribe(h, ok)
    \/ \E h \in Hosts, ok \in BOOLEAN : KeyDelete(h, ok)
    \/ \E h \in Hosts, ok \in BOOLEAN : KeyImport(h, ok)

SpecKeys == InitKeys /\ [][NextKeys]_vars

(* ------------------------------------- one record against one instance *)
\* A specification of its own for what reconcile and _refresh_record make of
\* one record: the cloud state, the tags and the elastic IP of server 1 and
\* the record the first host has of it (or none) are drawn from every
\* combination, and the record-level steps are applied to them.
SyncedId == 1
SyncHost == "h1"

\* Instance["State"]["Name"] as the steps may meet it; "terminated" is outside
\* EC2_STATE_MAP.
CloudStates == {"pending", "running", "stopping", "stopped", "terminated"}
Statuses == {"launching", "running", "stopped", "paused"}

InstanceChoices ==
    {[NoVm EXCEPT !.state = st, !.name = DefaultName(SyncedId), !.region = DefaultRegion,
                  !.tagCS = cs, !.tagEip = te, !.tagCn = tc] :
        st \in CloudStates, cs \in BOOLEAN, te \in {0} \cup EipIds,
        tc \in {0, DefaultCn(SyncedId), OldCn(1)}}

EipChoices ==
    {NoEip} \cup {[st |-> "allocated", sid |-> SyncedId, region |-> DefaultRegion, inst |-> j] :
                     j \in {0, SyncedId}}

RecordChoices ==
    {[name |-> DefaultName(SyncedId), region |-> DefaultRegion, status |-> st,
      ip |-> 0, eip |-> e, eipIp |-> IF e = 0 THEN 0 ELSE EipAddr(e), cn |-> c] :
        st \in Statuses, e \in {0} \cup EipIds, c \in {DefaultCn(SyncedId), OldCn(1)}}

InitRecords ==
    /\ \E v \in InstanceChoices : vm = [i \in Ids |-> IF i = SyncedId THEN v ELSE NoVm]
    /\ \E e \in EipChoices : eip = [a \in EipIds |-> e]
    /\ \E S \in {<< >>} \cup {Put(<< >>, SyncedId, r) : r \in RecordChoices} :
          store = [h \in Hosts |-> IF h = SyncHost THEN S ELSE << >>]
    /\ active = {}
    /\ ssmKey = FALSE
    /\ keyPairs = {}
    /\ sgs = {}
    /\ amis = {}
    /\ ebs = {}
    /\ snaps = [h \in Hosts |-> {}]
    /\ pc = [h \in Hosts |-> "idle"]
    /\ ctx = [h \in Hosts |-> IdleCtx]
    /\ ev = NoEvent
    /\ nextId = 1
    /\ keyFile = [h \in Hosts |-> 0]
    /\ clock = 0
    /\ sentinel = [h \in Hosts |-> NoSentinel]

\* Lines 1069-1102 applied to the record of one server that the cloud index
\* holds.
SyncOne(h, i) ==
    /\ i \in DOMAIN store[h]
    /\ i \in find_gsm_instances(store[h][i].region)
    /\ store' = [store EXCEPT ![h] = Put(store[h], i, SyncRecord(store[h][i], i, find_gsm_eips(store[h][i].region)))]
    /\ ev' = Event(h, "sync", "ok", "", i)
    /\ UNCHANGED <<cloudVars, keyFile, clock, sentinel, snaps, pc, ctx, nextId>>

\* Provisioner._refresh_record(i) on its own.
RefreshOne(h, i, eipsOk) ==
    /\ i \in DOMAIN store[h]
    /\ store' = [store EXCEPT ![h] = RefreshedStore(store[h], i, eipsOk)]
    /\ ev' = Event(h, "refresh", "ok", "", i)
    /\ UNCHANGED <<cloudVars, keyFile, clock, sentinel, snaps, pc, ctx, nextId>>

NextRecords ==
    \/ SyncOne(SyncHost, SyncedId)
    \/ \E eipsOk \in BOOLEAN : RefreshOne(SyncHost, SyncedId, eipsOk)
    \/ \E h \in Hosts : Reconcile(h, {}, TRUE, TRUE)

SpecRecords == InitRecords /\ [][NextRecords]_vars

(* ------------------------------------------------------------------ C21 *)
\* C21: a destroy of a record whose instance is already terminated returns
\* without error and leaves no record, whether the refresh finds the instance
\* gone or the terminate call answers NotFound; when the refresh finds it
\* gone no terminate call follows, and nothing in the cloud is touched.
C21_DestroyAlreadyTerminated ==
    [][\A h \in Hosts, i \in Ids :
        /\ (/\ pc[h] \in {"idle", "da_loop"}
            /\ ev'.op = "destroy" /\ ev'.h = h /\ ev'.id = i
            /\ i \in DOMAIN store[h]
            /\ Vanished(i)
            /\ ev'.err # "refresh") =>
              /\ ev'.out = "ok"
              /\ i \notin DOMAIN store'[h]
              /\ pc'[h] # "d_term"
              /\ vm' = vm /\ eip' = eip
        /\ (pc[h] \in {"idle", "da_loop"} /\ pc'[h] = "d_term" /\ ctx'[h].id = i) => ~Vanished(i)
        /\ (/\ pc[h] = "d_term" /\ ctx[h].id = i
            /\ pc'[h] # "d_term"
            /\ vm[i].state = "gone"
            /\ ev'.err # "terminate") =>
              /\ ev'.op = "destroy" /\ ev'.out = "ok"
              /\ i \notin DOMAIN store'[h]
              /\ vm' = vm
    ]_vars

\* A destroy has returned without error for an instance that no longer exists.
C21_Witness ==
    /\ ev.op = "destroy" /\ ev.out = "ok"
    /\ vm[ev.id].state = "gone"
    /\ ev.id \notin DOMAIN store[ev.h]
    /\ \E g \in Hosts \ {ev.h} : ev.id \notin DOMAIN store[g]

(* ------------------------------------------------------------------ C22 *)
\* C22: destroy_all reconciles first (a failing reconcile is ignored) and then
\* attempts a destroy for every record in the store; each destroy that raises
\* is noted and the loop goes on; at the end the records whose destroy raised
\* are exactly those still in the store, and destroy_all raises if and only if
\* at least one destroy raised.
C22_DestroyAll ==
    [][\A h \in Hosts :
        /\ (pc[h] = "idle" /\ pc'[h] = "da_loop") =>
              /\ \/ store'[h] = store[h]
                 \/ \E activeOk \in BOOLEAN :
                        store'[h] = ReconcileOnce(store[h], snaps[h], {}, activeOk).servers
              /\ ctx'[h].listed = DOMAIN store'[h]
              /\ ctx'[h].todo = ctx'[h].listed
              /\ ctx'[h].failed = {}
              /\ cloudVars' = cloudVars
        /\ (/\ pc[h] \in {"da_loop", "d_term"} /\ pc'[h] = "da_loop" /\ ctx[h].all
            /\ <<pc[h], ctx[h]>>' # <<pc[h], ctx[h]>>) =>
              /\ ev'.h = h
              /\ ev'.op = "destroy"
              /\ ev'.id \in ctx[h].todo
              /\ ctx'[h].todo = ctx[h].todo \ {ev'.id}
              /\ ctx'[h].listed = ctx[h].listed
              /\ ctx'[h].failed = ctx[h].failed \cup (IF ev'.out = "ok" THEN {} ELSE {ev'.id})
              /\ ev'.id \in DOMAIN store'[h] <=> ev'.out # "ok"
              /\ \A j \in Ids \ {ev'.id} : j \in DOMAIN store'[h] <=> j \in DOMAIN store[h]
        /\ (pc[h] = "da_loop" /\ pc'[h] = "idle") =>
              /\ ev'.op = "destroy_all"
              /\ store' = store
              /\ \A i \in ctx[h].listed : i \in DOMAIN store[h] <=> i \in ctx[h].failed
              /\ DOMAIN store[h] \subseteq ctx[h].listed
              /\ ev'.out = "raised" <=> ctx[h].failed # {}
              /\ ev'.out = "ok" <=> ctx[h].failed = {}
    ]_vars

\* A destroy_all over two records has raised: the destroy of one failed and
\* its record and instance are still there, the other is destroyed.
C22_Witness ==
    /\ ev.op = "destroy_all" /\ ev.out = "raised"
    /\ \E i, j \in Ids :
          /\ i \in DOMAIN store[ev.h] /\ vm[i].state = "running"
          /\ j \notin DOMAIN store[ev.h] /\ vm[j].state = "terminated"

(* ------------------------------------------- snapshots and restores *)
\* A specification of its own for snapshot, delete_snapshot and the restore
\* branch of launch.  Here every record carries the fields these operations
\* read and write: a server record its config and rcon_password, an instance
\* the content of its root volume (the container and /opt/gsm/metadata.json),
\* a cloud snapshot the volume content it froze, a snapshot record the config
\* and rcon_password it captured.  uuid4 and the cloud's ids are drawn from
\* one counter, nextId, so that no id is ever used twice.
MaxFresh == 3
FreshIds == 1..MaxFresh

\* The games that differ in what launch computes: no configuration at all, a
\* configuration without an RCON key, a configuration with a generated RCON
\* password.
Kinds == {"empty", "plain", "rcon"}

\* Lines 338-361: env, 0 for the empty dict; a generated password makes the
\* configuration of every launch its own.
LaunchConfig(kind, id) == CASE kind = "empty" -> 0 [] kind = "plain" -> 1 [] OTHER -> 10 + id

\* Lines 351-355: the RCON password, 0 for none; secrets.token_urlsafe gives
\* every launch its own.
LaunchRcon(kind, id) == IF kind = "rcon" THEN 10 + id ELSE 0

\* What _read_metadata_file answers when the file is missing or unreadable:
\* {}, from which launch reads an empty config and an empty password.
NoMeta == [config |-> 0, rcon_password |-> 0]

NoSnapVm == [state |-> "none", cn |-> 0, ctr |-> "none", meta |-> NoMeta, tagRcon |-> 0,
             pulled |-> FALSE, made |-> FALSE]

\* Lines 449-460, 606-617: the server record; launched tells a record written
\* by launch from one adopted by reconcile (history, not a stored field).
SnapServerRecord(config, rcon, launched) ==
    [status |-> "running", config |-> config, rcon_password |-> rcon, launched |-> launched]

\* A restore that always reads the metadata file of the restored volume.
RestoredMetaFromDisk(snap, vol, readOk) ==
    IF readOk THEN vol.meta ELSE NoMeta

\* Lines 482-497: the metadata of a restore: from the snapshot record when it
\* holds a config or a password, otherwise from the metadata file on the
\* restored volume.
RestoredMeta(snap, vol, readOk) ==
    IF snap.config # 0 \/ snap.rcon_password # 0
    THEN [config |-> snap.config, rcon_password |-> snap.rcon_password]
    ELSE IF readOk THEN vol.meta ELSE NoMeta

InitSnap ==
    /\ vm = [i \in FreshIds |-> NoSnapVm]
    /\ ebs = << >>
    /\ snaps = [h \in Hosts |-> << >>]
    /\ store = [h \in Hosts |-> << >>]
    /\ amis = {}
    /\ eip = [a \in EipIds |-> NoEip]
    /\ active = {}
    /\ ssmKey = FALSE
    /\ keyPairs = {}
    /\ sgs = {}
    /\ pc = [h \in Hosts |-> "idle"]
    /\ ctx = [h \in Hosts |-> IdleCtx]
    /\ ev = NoEvent
    /\ nextId = 1
    /\ keyFile = [h \in Hosts |-> 0]
    /\ clock = 0
    /\ sentinel = [h \in Hosts |-> NoSentinel]

\* launch, lines 294-660, in one step: a new server of the given kind, or a
\* restore of snapshot from (0: none).  out "raised" is a failure after
\* run_instance: the instance is terminated and the initial record deleted.
SnapLaunch(h, kind, from, out, readOk, metaOk, deregOk) ==
    LET id == nextId
        snap == snaps[h][from]
        vol == ebs[from]
        vals == RestoredMeta(snap, vol, readOk)
        image == [id |-> id, snap |-> from]
        config == IF from = 0 THEN LaunchConfig(kind, id) ELSE vals.config
        rcon == IF from = 0 THEN LaunchRcon(kind, id) ELSE vals.rcon_password
        disk == IF metaOk THEN [config |-> config, rcon_password |-> rcon]
                ELSE IF from = 0 THEN NoMeta ELSE vol.meta
    IN
    /\ id \in FreshIds
    /\ (\/ from = 0 \/ from \notin DOMAIN snaps[h] \/ from \notin DOMAIN ebs
        \/ snap.config # 0 \/ snap.rcon_password # 0) => readOk
    /\ from = 0 => deregOk
    /\ out # "ok" => readOk /\ metaOk
    /\ UNCHANGED <<pc, ctx, eip, active, ssmKey, keyPairs, sgs, ebs, snaps, keyFile, clock, sentinel>>
    /\ IF from # 0 /\ from \notin DOMAIN snaps[h]
       THEN /\ out = "raised" /\ deregOk
            /\ ev' = Event(h, "launch", "raised", "snapshot_not_found", from)
            /\ UNCHANGED <<vm, store, amis, nextId>>
       ELSE IF from # 0 /\ from \notin DOMAIN ebs
       THEN /\ out = "raised" /\ deregOk
            /\ ev' = Event(h, "launch", "raised", "image", from)
            /\ UNCHANGED <<vm, store, amis, nextId>>
       ELSE /\ nextId' = id + 1
            /\ amis' = IF from # 0 /\ ~deregOk THEN amis \cup {image} ELSE amis
            /\ IF out = "raised"
               THEN /\ vm' = [vm EXCEPT ![id] = [NoSnapVm EXCEPT !.state = "terminated"]]
                    /\ UNCHANGED store
                    /\ ev' = Event(h, "launch", "raised", "boot", id)
               ELSE /\ vm' = [vm EXCEPT ![id] =
                                [state |-> "running",
                                 cn |-> IF from = 0 THEN id ELSE vol.cn,
                                 ctr |-> "running",
                                 meta |-> disk,
                                 tagRcon |-> LaunchRcon(kind, id),
                                 pulled |-> from = 0,
                                 made |-> from = 0]]
                    /\ store' = [store EXCEPT ![h] = Put(store[h], id, SnapServerRecord(config, rcon, TRUE))]
                    /\ ev' = [Event(h, "launch", "ok", "", id) EXCEPT !.scan = {from}]

\* snapshot, lines 989-1018: the root volume is looked up, the cloud snapshot
\* created and waited for, and only then the snapshot record is saved, with
\* the config and rcon_password of the server record.
Snapshot(h, i, out) ==
    LET s == nextId
        rec == store[h][i]
        frozen == [cn |-> vm[i].cn, meta |-> vm[i].meta, of |-> i]
    IN
    /\ s \in FreshIds
    /\ UNCHANGED <<pc, ctx, eip, active, ssmKey, keyPairs, sgs, amis, vm, store, keyFile, clock, sentinel>>
    /\ IF i \notin DOMAIN store[h]
       THEN /\ out = "raised"
            /\ ev' = Event(h, "snapshot", "not_found", "", i)
            /\ UNCHANGED <<ebs, snaps, nextId, keyFile, clock, sentinel>>
       ELSE IF out = "volume" \/ vm[i].state # "running"
       THEN /\ out = "volume"
            /\ ev' = Event(h, "snapshot", "raised", "volume", i)
            /\ UNCHANGED <<ebs, snaps, nextId, keyFile, clock, sentinel>>
       ELSE IF out = "raised"
       THEN /\ ev' = Event(h, "snapshot", "raised", "create", i)
            /\ UNCHANGED <<ebs, snaps, nextId, keyFile, clock, sentinel>>
       ELSE /\ nextId' = s + 1
            /\ ebs' = Put(ebs, s, frozen)
            /\ IF out = "wait"
               THEN /\ ev' = Event(h, "snapshot", "raised", "wait", s)
                    /\ UNCHANGED snaps
               ELSE /\ snaps' = [snaps EXCEPT ![h] =
                                   Put(snaps[h], s, [config |-> rec.config,
                                                     rcon_password |-> rec.rcon_password,
                                                     server_id |-> i,
                                                     taken |-> rec.launched])]
                    /\ ev' = Event(h, "snapshot", "ok", "", s)

\* The images whose block device mapping names snapshot s.
find_amis_using_snapshot(s) == {a \in amis : a.snap = s}

\* A delete_snapshot that deletes the local record before the cloud calls.
DeleteSnapshotRecordFirst(h, s, out) ==
    /\ s \in FreshIds
    /\ s \notin DOMAIN ebs => out \in {"find", "delete"}
    /\ UNCHANGED <<pc, ctx, eip, active, ssmKey, keyPairs, sgs, vm, store, nextId, keyFile, clock, sentinel>>
    /\ IF s \notin DOMAIN snaps[h]
       THEN /\ out = "find"
            /\ ev' = Event(h, "delete_snapshot", "not_found", "", s)
            /\ UNCHANGED <<amis, ebs, snaps, keyFile, clock, sentinel>>
       ELSE /\ snaps' = [snaps EXCEPT ![h] = Drop(snaps[h], s)]
            /\ amis' = IF out \in {"find", "deregister"} THEN amis ELSE amis \ find_amis_using_snapshot(s)
            /\ ebs' = IF out = "ok" THEN Drop(ebs, s) ELSE ebs
            /\ ev' = Event(h, "delete_snapshot", IF out = "ok" THEN "ok" ELSE "raised",
                           IF out = "ok" THEN "" ELSE out, s)

\* delete_snapshot, lines 1020-1032: the images that use the snapshot are
\* deregistered, the cloud snapshot is deleted, the local record is deleted;
\* the first call that fails ends it.
DeleteSnapshot(h, s, out) ==
    /\ s \in FreshIds
    /\ s \notin DOMAIN ebs => out \in {"find", "delete"}
    /\ UNCHANGED <<pc, ctx, eip, active, ssmKey, keyPairs, sgs, vm, store, nextId, keyFile, clock, sentinel>>
    /\ IF s \notin DOMAIN snaps[h]
       THEN /\ out = "find"
            /\ ev' = Event(h, "delete_snapshot", "not_found", "", s)
            /\ UNCHANGED <<amis, ebs, snaps, keyFile, clock, sentinel>>
       ELSE /\ amis' = IF out \in {"find", "deregister"} THEN amis ELSE amis \ find_amis_using_snapshot(s)
            /\ ebs' = IF out = "ok" THEN Drop(ebs, s) ELSE ebs
            /\ snaps' = IF out = "ok" THEN [snaps EXCEPT ![h] = Drop(snaps[h], s)] ELSE snaps
            /\ ev' = Event(h, "delete_snapshot", IF out = "ok" THEN "ok" ELSE "raised",
                           IF out = "ok" THEN "" ELSE out, s)

\* destroy, lines 662-694, in one step.
SnapDestroy(h, i, termOk) ==
    /\ i \in FreshIds
    /\ UNCHANGED <<pc, ctx, eip, active, ssmKey, keyPairs, sgs, amis, ebs, snaps, nextId, keyFile, clock, sentinel>>
    /\ IF i \notin DOMAIN store[h]
       THEN /\ termOk
            /\ ev' = Event(h, "destroy", "not_found", "", i)
            /\ UNCHANGED <<vm, store>>
       ELSE IF vm[i].state # "running"
       THEN /\ termOk
            /\ store' = [store EXCEPT ![h] = Drop(store[h], i)]
            /\ ev' = Event(h, "destroy", "ok", "", i)
            /\ UNCHANGED vm
       ELSE IF ~termOk
       THEN /\ ev' = Event(h, "destroy", "raised", "terminate", i)
            /\ UNCHANGED <<vm, store>>
       ELSE /\ vm' = [vm EXCEPT ![i].state = "terminated", ![i].ctr = "exited"]
            /\ store' = [store EXCEPT ![h] = Drop(store[h], i)]
            /\ ev' = Event(h, "destroy", "ok", "", i)

\* Lines 1067-1139: the server records after reconcile: records of vanished
\* instances go, the RCON password follows the tag, unknown instances are
\* adopted with an empty config.
SnapReconciledStore(s) ==
    [i \in {j \in FreshIds : vm[j].state = "running"} |->
        IF i \in DOMAIN s
        THEN IF vm[i].tagRcon # 0 /\ vm[i].tagRcon # s[i].rcon_password
             THEN [s[i] EXCEPT !.rcon_password = vm[i].tagRcon]
             ELSE s[i]
        ELSE SnapServerRecord(0, vm[i].tagRcon, FALSE)]

\* Lines 1141-1170: the snapshot records after reconcile: records of deleted
\* snapshots go, unknown snapshots are adopted without config and password.
SnapReconciledSnaps(sn) ==
    [s \in DOMAIN ebs |->
        IF s \in DOMAIN sn THEN sn[s]
        ELSE [config |-> 0, rcon_password |-> 0, server_id |-> ebs[s].of, taken |-> FALSE]]

\* reconcile, lines 1038-1193, in one step; out "list": listing instances
\* fails, "list_snaps": listing snapshots fails after the server records
\* are done.
SnapReconcile(h, out) ==
    /\ UNCHANGED <<pc, ctx, cloudVars, nextId, keyFile, clock, sentinel>>
    /\ store' = [store EXCEPT ![h] = IF out = "list" THEN store[h] ELSE SnapReconciledStore(store[h])]
    /\ snaps' = [snaps EXCEPT ![h] = IF out = "ok" THEN SnapReconciledSnaps(snaps[h]) ELSE snaps[h]]
    /\ ev' = Event(h, "reconcile", IF out = "ok" THEN "ok" ELSE "raised", IF out = "ok" THEN "" ELSE out, 0)

\* The first machine launches, snapshots, restores and destroys; both
\* machines reconcile and delete snapshots.
SnapHost == "h1"

NextSnap ==
    \/ \E kind \in Kinds, from \in {0} \cup FreshIds, out \in {"ok", "raised"},
          readOk, metaOk, deregOk \in BOOLEAN :
            SnapLaunch(SnapHost, kind, from, out, readOk, metaOk, deregOk)
    \/ \E i \in FreshIds, out \in {"ok", "volume", "raised", "wait"} : Snapshot(SnapHost, i, out)
    \/ \E h \in Hosts, s \in FreshIds, out \in {"ok", "find", "deregister", "delete"} : DeleteSnapshot(h, s, out)
    \/ \E i \in FreshIds, termOk \in BOOLEAN : SnapDestroy(SnapHost, i, termOk)
    \/ \E h \in Hosts, out \in {"ok", "list", "list_snaps"} : SnapReconcile(h, out)

SpecSnap == InitSnap /\ [][NextSnap]_vars

(* ------------------------------------------------------------------ C23 *)
\* C23: a snapshot record saved by snapshot holds the config and rcon_password
\* of the server record and is never changed afterwards; a launch from such a
\* snapshot of a launched server, also after the server was destroyed, returns
\* a running server whose record has that config and rcon_password; the
\* restore pulls no image and creates no container: it starts the container
\* that the snapshotted volume carried.
C23_RestoreKeepsMetadata ==
    [][\A s \in FreshIds :
        LET h == SnapHost IN
        /\ (ev'.op = "snapshot" /\ ev'.out = "ok" /\ ev'.id = s) =>
              /\ s \notin DOMAIN snaps[h] /\ s \in DOMAIN snaps'[h]
              /\ \E i \in DOMAIN store[h] :
                    /\ snaps'[h][s].server_id = i
                    /\ snaps'[h][s].config = store[h][i].config
                    /\ snaps'[h][s].rcon_password = store[h][i].rcon_password
                    /\ ebs'[s].cn = vm[i].cn
        /\ (s \in DOMAIN snaps[h] /\ s \in DOMAIN snaps'[h]) => snaps'[h][s] = snaps[h][s]
        /\ (/\ ev'.op = "launch" /\ ev'.out = "ok" /\ ev'.scan = {s}
            /\ s \in DOMAIN snaps[h] /\ snaps[h][s].taken) =>
              LET r == store'[h][ev'.id]
                  v == vm'[ev'.id]
              IN /\ ev'.id \notin DOMAIN store[h]
                 /\ r.status = "running" /\ v.state = "running"
                 /\ r.config = snaps[h][s].config
                 /\ r.rcon_password = snaps[h][s].rcon_password
                 /\ ~v.pulled /\ ~v.made
                 /\ v.ctr = "running" /\ v.cn = ebs[s].cn /\ v.cn # ev'.id
    ]_vars

\* A server was launched with a generated password, snapshotted and destroyed,
\* and the launch from the snapshot has returned.
C23_Witness ==
    /\ ev.op = "launch" /\ ev.out = "ok"
    /\ \E s \in DOMAIN snaps[SnapHost] :
          /\ ev.scan = {s}
          /\ snaps[SnapHost][s].taken
          /\ snaps[SnapHost][s].rcon_password # 0
          /\ vm[snaps[SnapHost][s].server_id].state = "terminated"
          /\ store[SnapHost][ev.id].rcon_password = snaps[SnapHost][s].rcon_password

(* ------------------------------------------------------------------ C24 *)
\* C24: a snapshot record leaves snapshots.json only when its cloud snapshot
\* is gone: delete_snapshot deletes the record only after it deregistered the
\* images and deleted the cloud snapshot (any failure before leaves the
\* record and raises), reconcile deletes only records whose cloud snapshot no
\* longer exists, and a delete_snapshot that returns leaves neither the
\* record nor the cloud snapshot nor an image that uses it.
C24_SnapshotRecordOutlivedByNone ==
    [][\A h \in Hosts, s \in FreshIds :
        /\ (s \in DOMAIN snaps[h] /\ s \notin DOMAIN snaps'[h]) =>
              /\ s \notin DOMAIN ebs'
              /\ ev'.op \in {"delete_snapshot", "reconcile"} /\ ev'.h = h /\ ev'.out = "ok"
              /\ ev'.op = "reconcile" => s \notin DOMAIN ebs
        /\ (ev'.op = "delete_snapshot" /\ ev'.h = h /\ ev'.id = s /\ ev'.out = "ok") =>
              /\ s \in DOMAIN snaps[h]
              /\ s \notin DOMAIN snaps'[h]
              /\ s \notin DOMAIN ebs'
              /\ find_amis_using_snapshot(s)' = {}
        /\ (ev'.op = "delete_snapshot" /\ ev'.h = h /\ ev'.id = s /\ ev'.out = "raised") =>
              /\ snaps' = snaps
              /\ ebs' = ebs
              /\ ev'.err \in {"find", "deregister"} => amis' = amis
    ]_vars

\* A snapshot was taken and deleted again: no record on the machine that took
\* it, no cloud snapshot.
C24_Witness ==
    /\ ev.op = "delete_snapshot" /\ ev.out = "ok" /\ ev.h = SnapHost
    /\ ev.id \notin DOMAIN snaps[SnapHost]
    /\ ev.id \notin DOMAIN ebs
    /\ \E i \in FreshIds : vm[i].state = "running" /\ i \in DOMAIN store[SnapHost]

(* ------------------------------------------------------------------ C25 *)
\* The server of record i on host h counts as running for pin_ip / unpin_ip.
Addressable(h, i) == i \in DOMAIN store[h] /\ store[h][i].status \in {"running", "stopped"}

\* What pin_ip and unpin_ip leave behind but for the gsm:eip-alloc-id tag.
\* A pin_ip that returns for a running or stopped server without a pinned IP
\* leaves the new address associated and public_ip equal to eip_public_ip; an
\* unpin_ip that returns leaves both EIP fields empty, the address
\* disassociated and released, and public_ip equal to the address the
\* instance has now.
PinUnpinRoundTrip(h, i) ==
    /\ (ev'.op = "pin_ip" /\ ev'.out = "ok" /\ ev'.h = h /\ ev'.id = i /\ Addressable(h, i)) =>
          LET r == store'[h][i] IN
          /\ store[h][i].eip = 0
          /\ r.eip # 0
          /\ eip[r.eip].st = "none"
          /\ eip'[r.eip].st = "allocated" /\ eip'[r.eip].inst = i
          /\ r.eipIp = EipAddr(r.eip)
          /\ r.ip = r.eipIp
          /\ r.ip = InstIp(i)'
    /\ (ev'.op = "unpin_ip" /\ ev'.out = "ok" /\ ev'.h = h /\ ev'.id = i /\ Addressable(h, i)) =>
          LET a == store[h][i].eip
              r == store'[h][i]
          IN
          /\ a # 0
          /\ r.eip = 0 /\ r.eipIp = 0
          /\ eip'[a].st = "released" /\ eip'[a].inst = 0
          /\ r.ip = InstIp(i)'
          /\ r.ip # EipAddr(a)

\* C25 as stated: pin_ip then unpin_ip on a running or stopped server leaves
\* the EIP fields empty, the address released, public_ip the instance's own
\* address, and the gsm:eip-alloc-id tag is set by the one and removed by
\* the other.
C25_TagAlwaysFollows ==
    [][\A i \in LifeIds :
        /\ PinUnpinRoundTrip(LifeHost, i)
        /\ (ev'.op = "pin_ip" /\ ev'.out = "ok" /\ ev'.id = i /\ Addressable(LifeHost, i)) =>
              vm'[i].tagEip = store'[LifeHost][i].eip
        /\ (ev'.op = "unpin_ip" /\ ev'.out = "ok" /\ ev'.id = i /\ Addressable(LifeHost, i)) =>
              vm'[i].tagEip = 0
    ]_vars

\* C25, amended: as above, but the tag is written and deleted best effort: it
\* follows the record, or it is left as it was.
C25_PinUnpin ==
    [][\A i \in LifeIds :
        /\ PinUnpinRoundTrip(LifeHost, i)
        /\ (ev'.op = "pin_ip" /\ ev'.out = "ok" /\ ev'.id = i /\ Addressable(LifeHost, i)) =>
              vm'[i].tagEip \in {store'[LifeHost][i].eip, vm[i].tagEip}
        /\ (ev'.op = "unpin_ip" /\ ev'.out = "ok" /\ ev'.id = i /\ Addressable(LifeHost, i)) =>
              vm'[i].tagEip \in {0, vm[i].tagEip}
    ]_vars

\* An unpin_ip has returned for a running server: the address it had pinned
\* is released, the record has no EIP and shows the instance's own address,
\* the tag is gone.
C25_Witness ==
    /\ ev.op = "unpin_ip" /\ ev.out = "ok"
    /\ Addressable(LifeHost, ev.id)
    /\ vm[ev.id].state = "running"
    /\ vm[ev.id].tagEip = 0
    /\ store[LifeHost][ev.id].eip = 0
    /\ store[LifeHost][ev.id].ip = EphAddr(ev.id, vm[ev.id].gen)
    /\ \E a \in EipIds : eip[a].st = "released"

(* ------------------------------------------------------------------ C26 *)
\* C26: when associating the newly allocated address fails, in pin_ip or in
\* the pin step of launch, the address is released before the error
\* surfaces and the record's EIP fields stay empty: a pin that raised leaves
\* no address that is allocated and that no record refers to.
C26_FailedPinReleases ==
    [][\A i \in LifeIds :
        (/\ ev'.op \in {"pin_ip", "launch"} /\ ev'.out = "raised" /\ ev'.id = i
         /\ ev'.err \in {"associate", "release", "pin_associate", "pin_release"}) =>
            /\ i \in DOMAIN store'[LifeHost] =>
                  store'[LifeHost][i].eip = 0 /\ store'[LifeHost][i].eipIp = 0
            /\ \A a \in EipIds :
                  (eip[a].st = "none" /\ eip'[a].st = "allocated") =>
                      \E j \in DOMAIN store'[LifeHost] : store'[LifeHost][j].eip = a
    ]_vars

C28_RegionStaysWhileVmLives ==
    [][\A r \in Regions :
        (r \in active /\ r \notin active') =>
            ~ \E i \in Ids : Live(i)' /\ vm'[i].region = r
    ]_vars

(* ------------------------------------------------------------------ C29 *)
\* C29: for a local record whose id is in the cloud index, a sync by reconcile
\* or by _refresh_record leaves the status the table gives: pending ->
\* launching; running -> running, but stopped when the local status was
\* already stopped or the container-stopped tag is set; stopping and stopped
\* -> paused.  A state the map does not hold leaves the status as it was.
C29_StatusMapping ==
    /\ \A s \in CloudStates \ {"pending", "running", "stopping", "stopped"}, d \in Statuses :
          StateMapGet(s, d) = d
    /\ [][\A h \in Hosts, i \in Ids :
            (/\ ev'.h = h
             /\ ev'.op \in {"sync", "refresh", "reconcile"}
             /\ ev'.out = "ok"
             /\ i \in DOMAIN store[h]
             /\ i \in find_gsm_instances(store[h][i].region))
            => /\ i \in DOMAIN store'[h]
               /\ store'[h][i].status =
                    CASE vm[i].state = "pending" -> "launching"
                      [] vm[i].state = "running" ->
                            IF store[h][i].status = "stopped" \/ vm[i].tagCS
                            THEN "stopped" ELSE "running"
                      [] vm[i].state \in {"stopping", "stopped"} -> "paused"]_vars

\* After a reconcile the record of a running instance that carries the
\* container-stopped tag is 'stopped'.
C29_Witness ==
    /\ ev.op = "reconcile"
    /\ ev.h = SyncHost
    /\ SyncedId \in DOMAIN store[SyncHost]
    /\ vm[SyncedId].state = "running"
    /\ vm[SyncedId].tagCS
    /\ store[SyncHost][SyncedId].status = "stopped"

C31_RefreshEqualsReconcile ==
    \A h \in Hosts : \A i \in DOMAIN store[h] :
        Live(i) =>
            /\ i \in DOMAIN ReconciledStore(store[h], ScanRegions(store[h], {}, TRUE))
            /\ RefreshedStore(store[h], i, TRUE)[i]
                 = ReconciledStore(store[h], ScanRegions(store[h], {}, TRUE))[i]

(* ------------------------------------------- the effective configuration *)
\* A specification of its own for the configuration a launch builds from the
\* game's defaults, the --config-file and the -c overrides.  A configuration is
\* a function from keys to values; the value tells the layer it came from
\* ("d": game.defaults, "f": the file, "o": an override, "gen": a generated
\* token).
ConfigKeys == {"map", "rcon", "admin"}
NoConfig == << >>
ConfigsOf(v) == UNION {[S -> {v}] : S \in SUBSET ConfigKeys}

\* dict(a); a.update(b)
Overlay(a, b) == [k \in DOMAIN a \cup DOMAIN b |-> IF k \in DOMAIN b THEN b[k] ELSE a[k]]

\* GameDefinition: lgsm_server_code set or not, rcon_password_key ("" when
\* None), password_keys, required_config, defaults.
Games ==
    [lgsm : BOOLEAN, rcon_password_key : {"", "rcon"}, password_keys : {{}, {"admin"}},
     required_config : {{}, {"map"}}, defaults : ConfigsOf("d")]

\* The --config-file as _parse_env_file / _parse_lgsm_config read it.
ConfigFiles == {[given |-> FALSE, cfg |-> NoConfig]} \cup {[given |-> TRUE, cfg |-> c] : c \in ConfigsOf("f")}

\* cli.launch routes the -c values by game type.
env_overrides(game, ov) == IF game.lgsm THEN NoConfig ELSE ov
lgsm_config_overrides(game, ov) == IF game.lgsm THEN ov ELSE NoConfig

\* Lines 338-361: the container's environment.
LaunchEnv(game, file, ov) ==
    LET base == IF game.lgsm THEN NoConfig ELSE game.defaults
        withFile == IF ~game.lgsm /\ file.given THEN Overlay(base, file.cfg) ELSE base
        withOv == Overlay(withFile, env_overrides(game, ov))
        withRcon == IF game.rcon_password_key # "" /\ ~game.lgsm
                       /\ game.rcon_password_key \notin DOMAIN withOv
                    THEN Overlay(withOv, [k \in {game.rcon_password_key} |-> "gen"])
                    ELSE withOv
    IN Overlay(withRcon,
               [k \in game.password_keys \ DOMAIN env_overrides(game, ov) |-> "gen"])

\* Lines 365-377: the configuration checked against required_config.
ProvidedConfig(game, file, ov) ==
    IF game.lgsm
    THEN IF file.given THEN file.cfg
         ELSE Overlay(game.defaults, lgsm_config_overrides(game, ov))
    ELSE Overlay(IF file.given THEN Overlay(game.defaults, file.cfg) ELSE game.defaults,
                 env_overrides(game, ov))

\* Lines 523-543: the LinuxGSM configuration written to common.cfg.
FinalLgsmConfig(game, file, ov) ==
    LET base == IF file.given THEN file.cfg
                ELSE Overlay(game.defaults, lgsm_config_overrides(game, ov))
        key == game.rcon_password_key
        gen == IF key = "" THEN FALSE
               ELSE IF file.given THEN key \notin DOMAIN base
               ELSE key \notin DOMAIN lgsm_config_overrides(game, ov)
    IN IF gen THEN Overlay(base, [k \in {key} |-> "gen"]) ELSE base

\* Line 615: the record's config.
StoredConfig(game, file, ov) ==
    IF game.lgsm THEN FinalLgsmConfig(game, file, ov) ELSE LaunchEnv(game, file, ov)

ConfigHost == "h1"
ConfigCtx(game, file, ov, provided) ==
    [game |-> game, file |-> file, overrides |-> ov, provided |-> provided]

InitConfig ==
    /\ vm = [i \in Ids |-> NoVm]
    /\ eip = [a \in EipIds |-> NoEip]
    /\ active = {}
    /\ ssmKey = FALSE
    /\ keyPairs = {}
    /\ sgs = {}
    /\ amis = {}
    /\ ebs = {}
    /\ snaps = [h \in Hosts |-> {}]
    /\ store = [h \in Hosts |-> << >>]
    /\ pc = [h \in Hosts |-> "idle"]
    /\ \E game \in Games, file \in ConfigFiles, ov \in ConfigsOf("o") :
          ctx = [h \in Hosts |-> IF h = ConfigHost THEN ConfigCtx(game, file, ov, NoConfig)
                                 ELSE IdleCtx]
    /\ ev = NoEvent
    /\ nextId = 1
    /\ keyFile = [h \in Hosts |-> 0]
    /\ clock = 0
    /\ sentinel = [h \in Hosts |-> NoSentinel]

\* launch up to line 387: the configuration is built and, for a game with
\* required_config, checked against it before any cloud call.
ConfigValidate(h) ==
    LET c == ctx[h]
        provided == ProvidedConfig(c.game, c.file, c.overrides)
    IN /\ pc[h] = "idle"
       /\ h = ConfigHost
       /\ store[h] = << >>
       /\ IF c.game.required_config \subseteq DOMAIN provided
          THEN /\ pc' = [pc EXCEPT ![h] = "cfg_run"]
               /\ ctx' = [ctx EXCEPT ![h].provided =
                              IF c.game.required_config # {} THEN provided ELSE NoConfig]
               /\ ev' = NoEvent
          ELSE /\ UNCHANGED <<pc, ctx>>
               /\ ev' = Event(h, "launch", "raised", "config", 0)
       /\ UNCHANGED <<cloudVars, keyFile, clock, sentinel, store, snaps, nextId>>

\* launch from the container's creation to the final record: the environment
\* goes to docker create / run, the LinuxGSM configuration into common.cfg, and
\* the record keeps the one of the two that line 615 picks.  runOk = FALSE: a
\* step in between raised and no record is kept.
ConfigRun(h, runOk) ==
    LET c == ctx[h] IN
    /\ pc[h] = "cfg_run"
    /\ IF runOk
       THEN /\ store' = [store EXCEPT ![h] =
                   Put(<< >>, nextId,
                       [env |-> LaunchEnv(c.game, c.file, c.overrides),
                        common_cfg |-> IF c.game.lgsm
                                       THEN FinalLgsmConfig(c.game, c.file, c.overrides)
                                       ELSE NoConfig,
                        config |-> StoredConfig(c.game, c.file, c.overrides)])]
            /\ pc' = [pc EXCEPT ![h] = "cfg_done"]
            /\ ev' = Event(h, "launch", "ok", "", nextId)
       ELSE /\ UNCHANGED store
            /\ pc' = [pc EXCEPT ![h] = "idle"]
            /\ ev' = Event(h, "launch", "raised", "run", nextId)
    /\ UNCHANGED <<cloudVars, keyFile, clock, sentinel, ctx, snaps, nextId>>

NextConfig ==
    \/ ConfigValidate(ConfigHost)
    \/ \E runOk \in BOOLEAN : ConfigRun(ConfigHost, runOk)

SpecConfig == InitConfig /\ [][NextConfig]_vars

(* ------------------------------------------------------------------ C32 *)
\* C32: for every game and every combination of config file and overrides,
\* the configuration a launch validates against required_config is
\* game.defaults overlaid by the file overlaid by the overrides, and the
\* configuration applied to the container and stored in the record gives every
\* key of that layering its layered value (a password key the operator did not
\* supply may carry a generated token instead).
C32_LayeredConfig ==
    \A i \in DOMAIN store[ConfigHost] :
        LET c == ctx[ConfigHost]
            layered == Overlay(Overlay(c.game.defaults, c.file.cfg), c.overrides)
            generated == (c.game.password_keys \cup {c.game.rcon_password_key})
                           \ (DOMAIN c.file.cfg \cup DOMAIN c.overrides)
            r == store[ConfigHost][i]
            applied == IF c.game.lgsm THEN r.common_cfg ELSE r.env
        IN /\ c.game.required_config # {} => c.provided = layered
           /\ \A k \in DOMAIN layered \ generated :
                 /\ k \in DOMAIN r.config /\ r.config[k] = layered[k]
                 /\ k \in DOMAIN applied /\ applied[k] = layered[k]

(* ------------------------------------------- the active-regions parameter *)
\* A specification of its own for _get_active_regions, _add_active_region and
\* _remove_active_region, call by call (the read of the parameter and the
\* write are two round trips, and the two hosts interleave between them).
\* Here `active` is the parameter itself: whether it exists and its value, the
\* comma-joined sorted regions, as the sequence of its fields.
RegionsInOrder == <<"eu-west-1", "us-east-1">>
NoParameter == [exists |-> FALSE, value |-> << >>]

\* ",".join(sorted(current))
JoinSorted(S) == SelectSeq(RegionsInOrder, LAMBDA r : r \in S)
\* {r.strip() for r in value.split(",") if r.strip()}; ParameterNotFound: set()
SplitRegions(p) == IF p.exists THEN {p.value[k] : k \in DOMAIN p.value} ELSE {}

RegionRecord(i, r) ==
    [name |-> DefaultName(i), region |-> r, status |-> "running",
     ip |-> 0, eip |-> 0, eipIp |-> 0, cn |-> DefaultCn(i)]

\* The servers.json files the hosts may hold: any of the servers, each in any
\* region.
RegionStores ==
    UNION {[S -> {RegionRecord(i, r) : i \in Ids, r \in Regions}] : S \in SUBSET Ids}

RegionCtx(region, cur) == [region |-> region, cur |-> cur]
RegionEvent(h, op, out, region, wrote) ==
    [h |-> h, op |-> op, out |-> out, err |-> "", id |-> 0, scan |-> {region}, wrote |-> wrote]

InitRegions ==
    /\ vm = [i \in Ids |-> NoVm]
    /\ eip = [a \in EipIds |-> NoEip]
    /\ active = NoParameter
    /\ ssmKey = FALSE
    /\ keyPairs = {}
    /\ sgs = {}
    /\ amis = {}
    /\ ebs = {}
    /\ snaps = [h \in Hosts |-> {}]
    /\ store \in [Hosts -> {s \in RegionStores : \A i \in DOMAIN s : s[i].name = DefaultName(i)}]
    /\ \A i \in Ids : ~(\A h \in Hosts : i \in DOMAIN store[h])
    /\ pc = [h \in Hosts |-> "idle"]
    /\ ctx = [h \in Hosts |-> RegionCtx("", {})]
    /\ ev = NoEvent
    /\ nextId = 1
    /\ keyFile = [h \in Hosts |-> 0]
    /\ clock = 0
    /\ sentinel = [h \in Hosts |-> NoSentinel]

RegionFrame == UNCHANGED <<vm, eip, ssmKey, keyPairs, sgs, amis, ebs, snaps, store, nextId, keyFile, clock, sentinel>>

RegionReturn(h, op, out, region, wrote) ==
    /\ pc' = [pc EXCEPT ![h] = "idle"]
    /\ ctx' = [ctx EXCEPT ![h] = RegionCtx("", {})]
    /\ ev' = RegionEvent(h, op, out, region, wrote)

\* _add_active_region up to its write: the parameter is read, and a region
\* already listed ends the call.  readOk = FALSE: get_parameter raised
\* something else than ParameterNotFound.
AddActiveRegionRead(h, region, readOk) ==
    /\ pc[h] = "idle"
    /\ IF ~readOk
       THEN RegionReturn(h, "add", "raised", region, FALSE)
       ELSE IF region \in SplitRegions(active)
       THEN RegionReturn(h, "add", "ok", region, FALSE)
       ELSE /\ pc' = [pc EXCEPT ![h] = "add_put"]
            /\ ctx' = [ctx EXCEPT ![h] = RegionCtx(region, SplitRegions(active))]
            /\ ev' = NoEvent
    /\ UNCHANGED active
    /\ RegionFrame

\* An add that forgets the regions it read.
AddActiveRegionPutAlone(h, putOk) ==
    /\ pc[h] = "add_put"
    /\ active' = IF putOk THEN [exists |-> TRUE, value |-> JoinSorted({ctx[h].region})]
                 ELSE active
    /\ RegionReturn(h, "add", IF putOk THEN "ok" ELSE "raised", ctx[h].region, putOk)
    /\ RegionFrame

\* put_parameter(Overwrite=True) of the regions read plus the new one.
AddActiveRegionPut(h, putOk) ==
    /\ pc[h] = "add_put"
    /\ active' = IF putOk THEN [exists |-> TRUE, value |-> JoinSorted(ctx[h].cur \cup {ctx[h].region})]
                 ELSE active
    /\ RegionReturn(h, "add", IF putOk THEN "ok" ELSE "raised", ctx[h].region, putOk)
    /\ RegionFrame

\* _remove_active_region up to its write: nothing happens while a local record
\* is in the region or when the region is not listed.
RemoveActiveRegionRead(h, region, readOk) ==
    /\ pc[h] = "idle"
    /\ IF \E i \in DOMAIN store[h] : store[h][i].region = region
       THEN readOk /\ RegionReturn(h, "remove", "ok", region, FALSE)
       ELSE IF ~readOk
       THEN RegionReturn(h, "remove", "raised", region, FALSE)
       ELSE IF region \notin SplitRegions(active)
       THEN RegionReturn(h, "remove", "ok", region, FALSE)
       ELSE /\ pc' = [pc EXCEPT ![h] = "remove_put"]
            /\ ctx' = [ctx EXCEPT ![h] = RegionCtx(region, SplitRegions(active) \ {region})]
            /\ ev' = NoEvent
    /\ UNCHANGED active
    /\ RegionFrame

\* The write of _remove_active_region: the remaining regions, or the
\* parameter's deletion (ParameterNotFound swallowed) when none remains.
RemoveActiveRegionPut(h, putOk) ==
    /\ pc[h] = "remove_put"
    /\ active' = IF ~putOk THEN active
                 ELSE IF ctx[h].cur # {} THEN [exists |-> TRUE, value |-> JoinSorted(ctx[h].cur)]
                 ELSE NoParameter
    /\ RegionReturn(h, "remove", IF putOk THEN "ok" ELSE "raised", ctx[h].region, putOk)
    /\ RegionFrame

NextRegions ==
    \/ \E h \in Hosts, region \in Regions, readOk \in BOOLEAN : AddActiveRegionRead(h, region, readOk)
    \/ \E h \in Hosts, putOk \in BOOLEAN : AddActiveRegionPut(h, putOk)
    \/ \E h \in Hosts, region \in Regions, readOk \in BOOLEAN : RemoveActiveRegionRead(h, region, readOk)
    \/ \E h \in Hosts, putOk \in BOOLEAN : RemoveActiveRegionPut(h, putOk)

SpecRegions == InitRegions /\ [][NextRegions]_vars

(* ------------------------------------------------------------------ C33 *)
\* C33: adding a region that the parameter already lists writes nothing, and
\* otherwise writes the regions read plus the new one; removing a region
\* changes nothing while a local record of the host is in that region, and
\* otherwise takes exactly that region out of the regions read, writing the
\* remaining ones or deleting the parameter when none remains.
C33_AddRemove ==
    [][\A h \in Hosts :
         /\ (pc[h] = "idle" /\ ev'.h = h /\ ev'.op = "add" /\ ev'.out = "ok")
               => /\ ev'.scan \subseteq SplitRegions(active)
                  /\ ~ev'.wrote
                  /\ active' = active
         /\ (pc[h] = "idle" /\ pc'[h] = "add_put")
               => /\ ctx'[h].region \notin SplitRegions(active)
                  /\ ctx'[h].cur = SplitRegions(active)
                  /\ active' = active
         /\ (pc[h] = "add_put" /\ ev'.h = h /\ ev'.out = "ok")
               => /\ active'.exists
                  /\ SplitRegions(active') = ctx[h].cur \cup {ctx[h].region}
         /\ (pc[h] = "idle" /\ ev'.h = h /\ ev'.op = "remove" /\ ev'.out = "ok")
               => /\ ~ev'.wrote
                  /\ active' = active
                  /\ \/ \E i \in DOMAIN store[h] : {store[h][i].region} = ev'.scan
                     \/ ev'.scan \cap SplitRegions(active) = {}
         /\ (pc[h] = "idle" /\ pc'[h] = "remove_put")
               => /\ ~\E i \in DOMAIN store[h] : store[h][i].region = ctx'[h].region
                  /\ ctx'[h].region \in SplitRegions(active)
                  /\ ctx'[h].cur = SplitRegions(active) \ {ctx'[h].region}
                  /\ active' = active
         /\ (pc[h] = "remove_put" /\ ev'.h = h /\ ev'.out = "ok")
               => /\ SplitRegions(active') = ctx[h].cur
                  /\ active'.exists <=> ctx[h].cur # {}]_vars

\* A remove took the last region out and deleted the parameter.
C33_Witness ==
    /\ ev.op = "remove"
    /\ ev.out = "ok"
    /\ ev.wrote
    /\ active = NoParameter

(* --------------------------------------------- two launches, two regions *)
\* Two hosts launch at the same time, each in its own region, their steps
\* interleaved call by call.
LaunchRegionOf(h) == IF h = "h1" THEN "us-east-1" ELSE "eu-west-1"

NextRace ==
    \/ \E h \in Hosts : LaunchBegin(h, {LaunchRegionOf(h)}, {})
    \/ \E h \in Hosts : LaunchStepsPlain(h)
    \/ \E i \in Ids : VmProgress(i)

SpecRace == Init /\ [][NextRace]_vars

(* ------------------------------------------------------------------ C39 *)
\* C39: when two hosts launch concurrently in two different regions, no add
\* step of either launch takes a region out of the shared active-regions set,
\* so that after both add steps the set holds both regions.
C39_NoRegionLost ==
    [][\A h \in Hosts :
         (pc[h] = "l_put" /\ pc'[h] = "l_wait") => active \subseteq active']_vars

(* ------------------------------------------- auto_reconcile and its TTL *)
\* A specification of its own for reconcile with its .last_reconcile file and
\* for auto_reconcile, with time passing.  The clock counts ten seconds a
\* unit, up to MaxClock.
MaxClock == 4
ReconcileTtl == 3
TtlId == 1

\* The cloud and the files the calls start from: one server in any state (or
\* already terminated), recorded by the first host or by none, and snapshots
\* recorded or not.
TtlInstances ==
    {[NoVm EXCEPT !.state = st, !.name = DefaultName(TtlId), !.region = DefaultRegion,
                  !.tagCn = DefaultCn(TtlId)] : st \in {"pending", "running", "stopped", "terminated"}}
TtlRecord ==
    [name |-> DefaultName(TtlId), region |-> DefaultRegion, status |-> "running",
     ip |-> 0, eip |-> 0, eipIp |-> 0, cn |-> DefaultCn(TtlId)]

InitTtl ==
    /\ \E v \in TtlInstances : vm = [i \in Ids |-> IF i = TtlId THEN v ELSE NoVm]
    /\ eip = [a \in EipIds |-> NoEip]
    /\ active = {}
    /\ ssmKey = FALSE
    /\ keyPairs = {}
    /\ sgs = {}
    /\ amis = {}
    /\ ebs \in SUBSET SnapIds
    /\ \E sn \in SUBSET SnapIds : snaps = [h \in Hosts |-> IF h = "h1" THEN sn ELSE {}]
    /\ \E S \in {<< >>, Put(<< >>, TtlId, TtlRecord)} :
          store = [h \in Hosts |-> IF h = "h1" THEN S ELSE << >>]
    /\ pc = [h \in Hosts |-> "idle"]
    /\ ctx = [h \in Hosts |-> IdleCtx]
    /\ ev = NoEvent
    /\ nextId = 1
    /\ keyFile = [h \in Hosts |-> 0]
    /\ clock = 0
    /\ sentinel = [h \in Hosts |-> NoSentinel]

\* time.time() moves on.
Tick ==
    /\ clock < MaxClock
    /\ clock' = clock + 1
    /\ ev' = NoEvent
    /\ UNCHANGED <<cloudVars, store, snaps, pc, ctx, nextId, keyFile, sentinel>>

\* What reconcile (lines 1038-1193) leaves in the files of host h.  out "list":
\* find_gsm_instances or find_gsm_eips raised for a scanned region, before any
\* record was touched; "list_snaps": the snapshot listing raised, after the
\* server records were synced; "ok": the whole pass went through, and the
\* sentinel is written unless the write fails (writeOk = FALSE, swallowed).
ReconcileFiles(h, out, writeOk) ==
    LET regions == ScanRegions(store[h], {}, TRUE) IN
    [servers |-> IF out = "list" THEN store[h] ELSE ReconciledStore(store[h], regions),
     snapshots |-> IF out = "ok" THEN ReconciledSnaps(snaps[h], regions) ELSE snaps[h],
     sentinel |-> IF out = "ok" /\ writeOk THEN clock ELSE sentinel[h],
     scan |-> regions]

ReconcileOuts == {"ok", "list", "list_snaps"}

\* A reconcile that takes a failed listing for an empty one.
TimedReconcileListsNothing(h, out, writeOk) ==
    LET f == ReconcileFiles(h, out, writeOk) IN
    /\ Idle(h)
    /\ out # "ok" => writeOk
    /\ store' = [store EXCEPT ![h] = IF out = "list" THEN << >> ELSE f.servers]
    /\ snaps' = [snaps EXCEPT ![h] = f.snapshots]
    /\ sentinel' = [sentinel EXCEPT ![h] = f.sentinel]
    /\ ev' = [Event(h, "reconcile", IF out = "ok" THEN "ok" ELSE "raised",
                    IF out = "ok" THEN "" ELSE out, 0) EXCEPT !.scan = f.scan]
    /\ UNCHANGED <<cloudVars, pc, ctx, nextId, keyFile, clock>>

\* Provisioner.reconcile() called directly.
TimedReconcile(h, out, writeOk) ==
    LET f == ReconcileFiles(h, out, writeOk) IN
    /\ Idle(h)
    /\ out # "ok" => writeOk
    /\ store' = [store EXCEPT ![h] = f.servers]
    /\ snaps' = [snaps EXCEPT ![h] = f.snapshots]
    /\ sentinel' = [sentinel EXCEPT ![h] = f.sentinel]
    /\ ev' = [Event(h, "reconcile", IF out = "ok" THEN "ok" ELSE "raised",
                    IF out = "ok" THEN "" ELSE out, 0) EXCEPT !.scan = f.scan]
    /\ UNCHANGED <<cloudVars, pc, ctx, nextId, keyFile, clock>>

\* Lines 204-208: the sentinel exists and is less than 30 seconds old.
Fresh(h) == sentinel[h] # NoSentinel /\ clock - sentinel[h] < ReconcileTtl

\* An auto_reconcile that never looks at the sentinel.
AutoReconcileAlways(h, out, writeOk) ==
    LET f == ReconcileFiles(h, out, writeOk) IN
    /\ Idle(h)
    /\ out # "ok" => writeOk
    /\ store' = [store EXCEPT ![h] = f.servers]
    /\ snaps' = [snaps EXCEPT ![h] = f.snapshots]
    /\ sentinel' = [sentinel EXCEPT ![h] = f.sentinel]
    /\ ev' = [Event(h, "auto_reconcile", "ok", IF out = "ok" THEN "ran" ELSE out, 0)
                EXCEPT !.scan = f.scan]
    /\ UNCHANGED <<cloudVars, pc, ctx, nextId, keyFile, clock>>

\* Provisioner.auto_reconcile, lines 200-211: nothing is done while the
\* sentinel is fresh; otherwise reconcile runs and whatever it raises is
\* swallowed.
AutoReconcile(h, out, writeOk) ==
    LET f == ReconcileFiles(h, out, writeOk) IN
    /\ Idle(h)
    /\ (Fresh(h) \/ out # "ok") => writeOk
    /\ Fresh(h) => out = "ok"
    /\ IF Fresh(h)
       THEN /\ UNCHANGED <<store, snaps, sentinel>>
            /\ ev' = Event(h, "auto_reconcile", "ok", "skipped", 0)
       ELSE /\ store' = [store EXCEPT ![h] = f.servers]
            /\ snaps' = [snaps EXCEPT ![h] = f.snapshots]
            /\ sentinel' = [sentinel EXCEPT ![h] = f.sentinel]
            /\ ev' = [Event(h, "auto_reconcile", "ok", IF out = "ok" THEN "ran" ELSE out, 0)
                        EXCEPT !.scan = f.scan]
    /\ UNCHANGED <<cloudVars, pc, ctx, nextId, keyFile, clock>>

\* The instance is terminated from elsewhere.
TtlTerminate(i) ==
    /\ Live(i)
    /\ vm' = [vm EXCEPT ![i].state = "terminated"]
    /\ ev' = NoEvent
    /\ UNCHANGED <<eip, active, ssmKey, keyPairs, sgs, amis, ebs, store, snaps, pc, ctx, nextId, keyFile, clock, sentinel>>

NextTtl ==
    \/ Tick
    \/ \E h \in Hosts, out \in ReconcileOuts, writeOk \in BOOLEAN : TimedReconcile(h, out, writeOk)
    \/ \E h \in Hosts, out \in ReconcileOuts, writeOk \in BOOLEAN : AutoReconcile(h, out, writeOk)
    \/ VmProgress(TtlId)
    \/ TtlTerminate(TtlId)

SpecTtl == InitTtl /\ [][NextTtl]_vars

(* ------------------------------------------------------------------ C34 *)
\* C34 as stated: auto_reconcile runs the reconciler exactly when the sentinel
\* is absent or at least 30 seconds old; a reconcile that went through has
\* written the sentinel; an auto_reconcile within 30 seconds of the sentinel
\* scans nothing and changes no record; auto_reconcile never raises.
C34_SentinelAlwaysWritten ==
    [][\A h \in Hosts :
         (ev'.h = h /\ ev'.op = "auto_reconcile")
         => /\ ev'.out = "ok"
            /\ ev'.err = "skipped" <=> Fresh(h)
            /\ ev'.err = "skipped" =>
                  /\ ev'.scan = {}
                  /\ UNCHANGED <<store, snaps, sentinel, cloudVars>>
            /\ ev'.err = "ran" => sentinel'[h] = clock]_vars

\* C34: the same, except that the write of the sentinel is best effort: a
\* reconcile that went through leaves the sentinel at the current time or, the
\* write having failed, as it was; only a sentinel that was written makes the
\* next auto_reconcile within 30 seconds do nothing.
C34_AutoReconcile ==
    [][\A h \in Hosts :
         (ev'.h = h /\ ev'.op = "auto_reconcile")
         => /\ ev'.out = "ok"
            /\ ev'.err = "skipped" <=> Fresh(h)
            /\ ev'.err = "skipped" =>
                  /\ ev'.scan = {}
                  /\ UNCHANGED <<store, snaps, sentinel, cloudVars>>
            /\ ev'.err = "ran" =>
                  /\ sentinel'[h] \in {clock, sentinel[h]}
                  /\ sentinel'[h] = clock => Fresh(h)'
            /\ ev'.err \notin {"ran", "skipped"} => sentinel'[h] = sentinel[h]]_vars

\* Time has passed since a reconcile wrote the sentinel, and an auto_reconcile
\* called within 30 seconds of it has done nothing although the instance had
\* been terminated in between and the record is still there.
C34_Witness ==
    \E h \in Hosts :
        /\ ev.h = h
        /\ ev.op = "auto_reconcile"
        /\ ev.err = "skipped"
        /\ sentinel[h] # NoSentinel
        /\ clock > sentinel[h]
        /\ TtlId \in DOMAIN store[h]
        /\ ~Live(TtlId)

(* ------------------------------------------------------------------ C40 *)
\* C40: when listing the instances or the elastic IPs fails for a scanned
\* region, reconcile raises and has deleted, changed or adopted no server
\* record and no snapshot record and has not written the sentinel.
C40_FailedListingTouchesNothing ==
    [][\A h \in Hosts :
         (ev'.h = h /\ ev'.op \in {"reconcile", "auto_reconcile"} /\ ev'.err = "list")
         => /\ ev'.op = "reconcile" => ev'.out = "raised"
            /\ store' = store
            /\ snaps' = snaps
            /\ sentinel' = sentinel]_vars

\* A reconcile has raised on a listing while the host holds the record of an
\* instance that is terminated: the record is still there.
C40_Witness ==
    \E h \in Hosts :
        /\ ev.h = h
        /\ ev.op = "reconcile"
        /\ ev.out = "raised"
        /\ ev.err = "list"
        /\ TtlId \in DOMAIN store[h]
        /\ ~Live(TtlId)

(* --------------------------------------------------------- the ports tag *)
\* A specification of its own for the gsm:ports tag.  A string is the sequence
\* of its characters.
DigitChars == <<"0", "1", "2", "3", "4", "5", "6", "7", "8", "9">>
IsDigit(c) == \E d \in DOMAIN DigitChars : DigitChars[d] = c
DigitValue(c) == (CHOOSE d \in DOMAIN DigitChars : DigitChars[d] = c) - 1

\* str(n) of a port number
RECURSIVE IntToStr(_)
IntToStr(n) == IF n < 10 THEN <<DigitChars[n + 1]>>
               ELSE Append(IntToStr(n \div 10), DigitChars[(n % 10) + 1])

\* s.strip()
RECURSIVE Strip(_)
Strip(s) ==
    IF s = << >> THEN s
    ELSE IF Head(s) = " " THEN Strip(Tail(s))
    ELSE IF s[Len(s)] = " " THEN Strip(SubSeq(s, 1, Len(s) - 1))
    ELSE s

\* int(s): the number, or -1 for ValueError.  Blanks around the digits are
\* accepted as int() accepts them.
RECURSIVE DigitsValue(_)
DigitsValue(s) == IF s = << >> THEN 0 ELSE 10 * DigitsValue(SubSeq(s, 1, Len(s) - 1)) + DigitValue(s[Len(s)])
ParseInt(s) ==
    LET t == Strip(s)
    IN IF t # << >> /\ \A k \in DOMAIN t : IsDigit(t[k]) THEN DigitsValue(t) ELSE -1

\* s.split(sep): the pieces between the separators.
RECURSIVE Split(_, _)
Split(s, sep) ==
    IF \A k \in DOMAIN s : s[k] # sep THEN <<s>>
    ELSE LET at == CHOOSE k \in DOMAIN s : s[k] = sep /\ \A j \in 1..(k - 1) : s[j] # sep
         IN <<SubSeq(s, 1, at - 1)>> \o Split(SubSeq(s, at + 1, Len(s)), sep)

\* sep.join(pieces)
RECURSIVE Join(_, _)
Join(pieces, sep) ==
    IF pieces = << >> THEN << >>
    ELSE IF Len(pieces) = 1 THEN pieces[1]
    ELSE pieces[1] \o <<sep>> \o Join(Tail(pieces), sep)

\* The order of sorted() on strings: by code point, a prefix first.
CharsInOrder == <<" ", ",", "/", "0", "1", "2", "3", "4", "5", "6", "7", "8", "9",
                  "c", "d", "p", "t", "u", "x">>
CharRank(c) == CHOOSE k \in DOMAIN CharsInOrder : CharsInOrder[k] = c
RECURSIVE StrLess(_, _)
StrLess(a, b) ==
    IF b = << >> THEN FALSE
    ELSE IF a = << >> THEN TRUE
    ELSE IF Head(a) # Head(b) THEN CharRank(Head(a)) < CharRank(Head(b))
    ELSE StrLess(Tail(a), Tail(b))
RECURSIVE SortedStrs(_)
SortedStrs(S) ==
    IF S = {} THEN << >>
    ELSE LET m == CHOOSE x \in S : \A y \in S \ {x} : StrLess(x, y)
         IN <<m>> \o SortedStrs(S \ {m})

\* GamePort: a port number and a protocol.
GamePorts == [port : {7, 80, 443}, protocol : {<<"t", "c", "p">>, <<"u", "d", "p">>}]
PortKey(p) == IntToStr(p.port) \o <<"/">> \o p.protocol

\* Line 423: the record's ports, {f"{p.port}/{p.protocol}": p.port}.
RecordPorts(P) == [k \in {PortKey(p) : p \in P} |-> (CHOOSE p \in P : PortKey(p) = k).port]
\* Line 424: ",".join(sorted(ports.keys()))
PortsTag(P) == Join(SortedStrs(DOMAIN RecordPorts(P)), ",")

\* A parser that keeps an entry without a slash.
ParsePortsTagNumbersOnly(tag) ==
    IF tag = << >> THEN << >>
    ELSE LET entries == {Strip(e) : e \in {Split(tag, ",")[k] : k \in DOMAIN Split(tag, ",")}}
             good == {e \in entries : ParseInt(Split(e, "/")[1]) # -1}
         IN [e \in good |-> ParseInt(Split(e, "/")[1])]

\* _parse_ports_tag, lines 85-99.
ParsePortsTag(tag) ==
    IF tag = << >> THEN << >>
    ELSE LET entries == {Strip(e) : e \in {Split(tag, ",")[k] : k \in DOMAIN Split(tag, ",")}}
             good == {e \in entries : (\E k \in DOMAIN e : e[k] = "/")
                                        /\ ParseInt(Split(e, "/")[1]) # -1}
         IN [e \in good |-> ParseInt(Split(e, "/")[1])]

\* The tags the parser is given besides the serialised ones: every string of
\* up to MaxTagLen of these characters.
MaxTagLen == 4
TagChars == {"7", "/", "u", ",", " "}
RawTags == UNION {[1..n -> TagChars] : n \in 0..MaxTagLen}

PortsHost == "h1"
PortsCtx(P, raw, ports, tag, parsed) ==
    [game_ports |-> P, raw |-> raw, ports |-> ports, tag |-> tag, parsed |-> parsed]

InitPorts ==
    /\ vm = [i \in Ids |-> NoVm]
    /\ eip = [a \in EipIds |-> NoEip]
    /\ active = {}
    /\ ssmKey = FALSE
    /\ keyPairs = {}
    /\ sgs = {}
    /\ amis = {}
    /\ ebs = {}
    /\ snaps = [h \in Hosts |-> {}]
    /\ store = [h \in Hosts |-> << >>]
    /\ pc = [h \in Hosts |-> "idle"]
    /\ \E P \in {Q \in SUBSET GamePorts : Cardinality(Q) <= 2}, raw \in RawTags :
          ctx = [h \in Hosts |-> IF h = PortsHost THEN PortsCtx(P, raw, << >>, << >>, << >>)
                                 ELSE IdleCtx]
    /\ ev = NoEvent
    /\ nextId = 1
    /\ keyFile = [h \in Hosts |-> 0]
    /\ clock = 0
    /\ sentinel = [h \in Hosts |-> NoSentinel]

PortsFrame == UNCHANGED <<cloudVars, store, snaps, nextId, keyFile, clock, sentinel>>

\* launch, lines 421-441: the record's ports and the tag written from them.
PortsSerialize(h) ==
    /\ pc[h] = "idle"
    /\ pc' = [pc EXCEPT ![h] = "tagged"]
    /\ ctx' = [ctx EXCEPT ![h].ports = RecordPorts(ctx[h].game_ports),
                          ![h].tag = PortsTag(ctx[h].game_ports)]
    /\ ev' = Event(h, "launch", "ok", "", 0)
    /\ PortsFrame

\* reconcile on another machine reads the tag back (lines 1086, 1128).
PortsParse(h) ==
    /\ pc[h] = "tagged"
    /\ pc' = [pc EXCEPT ![h] = "parsed"]
    /\ ctx' = [ctx EXCEPT ![h].parsed = ParsePortsTag(ctx[h].tag)]
    /\ ev' = Event(h, "parse", "ok", "", 0)
    /\ PortsFrame

\* The parser on a tag that launch did not write.
PortsParseRaw(h) ==
    /\ pc[h] = "idle"
    /\ pc' = [pc EXCEPT ![h] = "parsed_raw"]
    /\ ctx' = [ctx EXCEPT ![h].tag = ctx[h].raw, ![h].parsed = ParsePortsTag(ctx[h].raw)]
    /\ ev' = Event(h, "parse", "ok", "", 0)
    /\ PortsFrame

NextPorts ==
    \/ PortsSerialize(PortsHost)
    \/ PortsParse(PortsHost)
    \/ PortsParseRaw(PortsHost)

SpecPorts == InitPorts /\ [][NextPorts]_vars

(* ------------------------------------------------------------------ C35 *)
\* C35: parsing the tag that launch serialises from a set of distinct
\* port/protocol pairs gives exactly the record's ports map; of any tag the
\* parser keeps just the entries that have a slash and a number before it,
\* each mapped to that number, and the empty tag parses to the empty map.
C35_PortsRoundTrip ==
    LET c == ctx[PortsHost] IN
    /\ pc[PortsHost] = "parsed" => c.parsed = c.ports /\ c.ports = RecordPorts(c.game_ports)
    /\ pc[PortsHost] = "parsed_raw" =>
          /\ c.tag = << >> => c.parsed = << >>
          /\ \A e \in DOMAIN c.parsed :
                /\ \E k \in DOMAIN e : e[k] = "/"
                /\ c.parsed[e] = ParseInt(Split(e, "/")[1])
                /\ c.parsed[e] >= 0
          /\ \A k \in DOMAIN Split(c.tag, ",") :
                LET e == Strip(Split(c.tag, ",")[k]) IN
                ((\A j \in DOMAIN e : e[j] # "/") \/ ParseInt(Split(e, "/")[1]) = -1)
                    => e \notin DOMAIN c.parsed

\* A tag of two ports has been written and parsed back.
C35_Witness ==
    /\ pc[PortsHost] = "parsed"
    /\ Cardinality(ctx[PortsHost].game_ports) = 2
    /\ Cardinality(DOMAIN ctx[PortsHost].parsed) = 2

(* ------------------------------------------------------------------ C36 *)
\* C36: once the restore image of a launch from a snapshot is registered,
\* every exit from the launch deregisters it: in particular a launch that
\* raises at the security group, at run_instance or at the pin step, where no
\* deregistration call is there to fail, leaves no image registered.
C36_RestoreImageDeregistered ==
    [][\A h \in Hosts :
         (/\ ev'.h = h
          /\ ev'.op = "launch"
          /\ ev'.err \in {"security_group", "run_instance",
                          "pin_allocate", "pin_associate", "pin_release"})
         => ev'.id \notin amis']_vars

(* ------------------------------------------------------------------ C37 *)
\* C37: when a launch has returned, a new launch or the restore of a snapshot
\* of a game with an RCON password, the instance's gsm:rcon-password tag, when
\* present, equals the rcon_password of the returned record.
C37_RconTagMatchesRecord ==
    [][\A h \in Hosts :
         (/\ ev'.h = h
          /\ ev'.op = "launch"
          /\ ev'.out = "ok"
          /\ \A from \in ev'.scan \ {0} : snaps[h][from].rcon_password # 0
          /\ vm'[ev'.id].tagRcon # 0)
         => vm'[ev'.id].tagRcon = store'[h][ev'.id].rcon_password]_vars


(* ------------------------------------------------------------------ C38 *)
\* C38: a reconcile keeps the eip_allocation_id and the eip_public_ip of a
\* record whose elastic IP is still allocated in the cloud and still
\* associated with the record's server, whether or not the write of the
\* gsm:eip-alloc-id tag succeeded when the address was pinned.
C38_PinnedEipKept ==
    [][\A h \in Hosts : \A i \in DOMAIN store[h] :
         (/\ ev'.h = h
          /\ ev'.op = "reconcile"
          /\ ev'.out = "ok"
          /\ store[h][i].eip # 0
          /\ eip[store[h][i].eip].st = "allocated"
          /\ eip[store[h][i].eip].inst = i
          /\ i \in DOMAIN store'[h])
         => /\ store'[h][i].eip = store[h][i].eip
            /\ store'[h][i].eipIp = store[h][i].eipIp]_vars
====
